---- MODULE Spec2Model ----
(***************************************************************************)
(* Octolapse rendering (octolapse/render.py): the RenderingProcessor       *)
(* worker thread, the callers that enqueue RenderJobInfo descriptors and   *)
(* poll is_processing(), and the TimelapseRenderJob pipeline (_render).    *)
(*                                                                         *)
(* Numbers: frame rates are kept in thousandths of a frame per second      *)
(* (the code rounds to 0.001), so 1000 is 1 fps.                           *)
(* Directories: every job has its own snapshot directory (job GUID) and    *)
(* its own mkdtemp() directory; temp_dir / snapshot_dir describe those of  *)
(* the job the worker holds, and are re-read when the next job is          *)
(* constructed.                                                            *)
(***************************************************************************)
EXTENDS Integers, Sequences, FiniteSets, TLC

\* ------------------------------------------------------------------ bounds
\* Jobs the callers submit in one run of the model.
MaxJobs == 2
\* Largest number of snapshot files a job's snapshot directory holds.
MaxFrames == 2

\* ---------------------------------------------------------------- values
\* Python's None for an exception slot, and exception values.
\* (message: "" for a fixed text, else the text formatted into the message)
NoError == [cls |-> "None", type |-> "", cause |-> "", message |-> ""]

RenderError(type, cause) ==
    [cls |-> "RenderError", type |-> type, cause |-> cause, message |-> ""]

PyException(cls) == [cls |-> cls, type |-> "", cause |-> "", message |-> ""]

\* what sarge.run gave for the job's ffmpeg command: it raised, or it returned
\* p with p.returncode and p.stderr.text; NoRun before the encode stage
NoRun == [ran |-> FALSE, raised |-> FALSE, returncode |-> 0, stderr_text |-> ""]

\* self._imageCount = None / self._fps = None
NoCount == -1

\* a payload slot before any callback of the job
NoPayload ==
    [callback |-> "", JobId |-> 0, JobNumber |-> 0, JobsRemaining |-> 0,
     SnapshotCount |-> NoCount, Synchronize |-> FALSE, RenderingFilename |-> "",
     BeforeRenderError |-> NoError, AfterRenderError |-> NoError,
     error |-> NoError]

\* ------------------------------------------------------------ configuration
\* The rendering profile fields the pipeline reads, and the encoder path that
\* the caller hands to RenderJobInfo together with the profile.
DefaultRendering ==
    [cleanup_after_render_complete |-> TRUE,
     cleanup_after_render_fail |-> FALSE,
     sync_with_timelapse |-> TRUE,
     bitrate |-> "8000K",
     enable_watermark |-> FALSE,
     selected_watermark |-> "",
     fps_calculation_type |-> "static",
     fps |-> 1000,
     run_length_seconds |-> 1,
     min_fps |-> 1000,
     max_fps |-> 2000,
     pre_roll_seconds |-> 0,
     post_roll_seconds |-> 0,
     output_template |-> "{GCODEFILENAME}",
     ffmpeg_path |-> "ffmpeg"]

\* Profiles that differ in the three flags the worker and the pipeline's
\* cleanup and synchronization read.
FlagRenderings ==
    { [DefaultRendering EXCEPT !.cleanup_after_render_complete = cs,
                               !.cleanup_after_render_fail = cf,
                               !.sync_with_timelapse = sy] :
        cs \in BOOLEAN, cf \in BOOLEAN, sy \in BOOLEAN }

\* Frame-rate settings: fixed 1 fps, fixed 0.5 fps (below the allowed 1 fps),
\* and duration mode (frames / 1 s, clamped to [1, 2] fps).
FpsProfiles ==
    { [type |-> "static", fps |-> 1000],
      [type |-> "static", fps |-> 500],
      [type |-> "duration", fps |-> 1000] }

\* Filename templates: a valid one, an unknown token, an integer token and
\* an unbalanced brace.
OutputTemplates == {"{GCODEFILENAME}", "{UNKNOWN}", "{0}", "{"}

\* Profiles for a single pipeline run: flags, encoder path, bitrate,
\* watermark, frame rate, pre/post roll and filename template all vary.
JobRenderings ==
    { [r EXCEPT !.ffmpeg_path = ff, !.bitrate = br,
                !.enable_watermark = wm[1], !.selected_watermark = wm[2],
                !.fps_calculation_type = fp.type, !.fps = fp.fps,
                !.pre_roll_seconds = roll, !.post_roll_seconds = roll,
                !.output_template = tpl] :
        r \in FlagRenderings,
        ff \in {"None", "ffmpeg"},
        br \in {"None", "8000K"},
        wm \in {<<FALSE, "">>, <<TRUE, "">>, <<TRUE, "wm.png">>},
        fp \in FpsProfiles,
        roll \in {0, 1},
        tpl \in OutputTemplates }

\* (variant: the descriptor keeps the caller's own profile object)
RenderingObject_Callers == "caller"

\* self.rendering = rendering.clone() (line 161): the profile object the
\* descriptor holds is one of its own
RenderingObject == "clone"

\* RenderJobInfo.__init__: the descriptor built from the caller's settings.
\* rendering.clone() copies the profile; SNAPSHOTCOUNT and FPS start as 0.
RenderJobInfo(job_guid, profile) ==
    [job_id |-> job_guid,
     rendering_object |-> RenderingObject,
     job_number |-> 0,
     jobs_remaining |-> 0,
     rendering |-> profile,
     ffmpeg_path |-> profile.ffmpeg_path,
     output_tokens |-> [SNAPSHOTCOUNT |-> 0, FPS |-> 0]]

\* no descriptor held by the worker
NoJob == RenderJobInfo(0, DefaultRendering)

\* ------------------------------------------------------------------ state
VARIABLES
    settings,             \* the caller's active rendering profile and encoder path
    pending,              \* jobs the callers have still to submit
    enqueued,             \* number of put() calls completed
    rendering_task_queue, \* Queue.Queue of RenderJobInfo, head first
    unfinished_tasks,     \* Queue.unfinished_tasks (put +1, task_done -1)
    job_count,            \* RenderingProcessor.job_count
    _is_processing,   \* RenderingProcessor._is_processing
    lock,                 \* holder of RenderingProcessor.lock
    pc,                   \* the worker's position in run()
    job_info,             \* the descriptor the worker dequeued
    dequeue_ctx,          \* puts and gets completed and depth left at the get();
                          \* puts completed when qsize() was read
    job,                  \* the TimelapseRenderJob's fields
    ppc,                  \* the pipeline's position in _render()
    executing,            \* job ids whose process() has been entered and not left
    raised,               \* the exception that left process() or on_render_end, or NoError
    render_job_lock,      \* holder of TimelapseRenderJob.render_job_lock
    temp_dir,             \* the job's mkdtemp directory: exists, frame files
    snapshot_dir,         \* frame files in the job's snapshot directory
    encoder_runs,         \* invocations of the encoder for the job
    callback_log,         \* the callbacks the job's pipeline invoked, in order
    prerender_fired,      \* ids of the jobs whose prerender-start callback was invoked
    terminal_fired,       \* ids of the jobs whose success or error callback was invoked
    last_payload,         \* the RenderingCallbackArgs of the last callback
    render_end_count,     \* invocations of on_render_end
    poller,               \* a caller inside is_processing(): "idle" or "locked"
    observed,             \* what the last is_processing() call returned
    threads,              \* worker threads at the encode stage of their pipelines
    call                  \* one call of a helper function: arguments and result

vars == <<settings, pending, enqueued, rendering_task_queue, unfinished_tasks,
          job_count, _is_processing, lock, pc, job_info, dequeue_ctx, job,
          ppc, executing, raised, render_job_lock, temp_dir, snapshot_dir,
          encoder_runs, callback_log, prerender_fired, terminal_fired,
          last_payload, render_end_count, poller, observed, threads, call>>

processor_vars == <<job_count, _is_processing, lock, pc, job_info,
                    dequeue_ctx, raised, render_end_count>>

pipeline_vars == <<job, ppc, executing, render_job_lock, temp_dir, snapshot_dir,
                   encoder_runs, callback_log, prerender_fired, terminal_fired,
                   last_payload>>

\* the record of the callbacks invoked
callback_vars == <<callback_log, prerender_fired, terminal_fired, last_payload>>

caller_vars == <<settings, pending, enqueued, poller, observed>>

queue_vars == <<rendering_task_queue, unfinished_tasks>>

\* what the single worker's run() and _render() never touch: the threads of
\* the several-workers development and the helper call under study
aside == <<threads, call>>

\* no further worker thread, no helper call
NoThreads == << >>

NoCall == [fn |-> "none"]

\* what os.makedirs (line 648) and os.path.exists(watermark_path) (line 663)
\* answered in this run; TRUE while not asked
NoAnswer == [makedirs_ok |-> TRUE, watermark_exists |-> TRUE]

\* TimelapseRenderJob.__init__
TimelapseRenderJob(info) ==
    [rendering |-> info.rendering,
     ffmpeg |-> info.ffmpeg_path,
     cleanAfterSuccess |-> info.rendering.cleanup_after_render_complete,
     cleanAfterFail |-> info.rendering.cleanup_after_render_fail,
     synchronize |-> info.rendering.sync_with_timelapse,
     fps |-> NoCount,
     imageCount |-> NoCount,
     snapshot_metadata |-> "None",
     temp_rendering_dir |-> "None",
     output_filename |-> "",
     before_render_error |-> NoError,
     after_render_error |-> NoError,
     exc |-> NoError,
     r_error |-> NoError,
     p |-> NoRun,
     fs |-> NoAnswer]

NoDir == [exists |-> FALSE, frames |-> << >>]

\* ------------------------------------------------------------------ Init
InitCommon ==
    /\ job_count = 0
    /\ _is_processing = FALSE
    /\ lock = "free"
    /\ pc = "get"
    /\ job_info = NoJob
    /\ dequeue_ctx = [enqueued |-> 0, dequeued |-> 0, depth |-> 0, stamped_at |-> 0]
    /\ job = TimelapseRenderJob(NoJob)
    /\ ppc = "idle"
    /\ executing = {}
    /\ raised = NoError
    /\ render_job_lock = 0
    /\ temp_dir = NoDir
    /\ snapshot_dir = {}
    /\ encoder_runs = 0
    /\ callback_log = << >>
    /\ prerender_fired = {}
    /\ terminal_fired = {}
    /\ last_payload = NoPayload
    /\ render_end_count = 0
    /\ poller = "idle"
    /\ observed = "none"

\* The processor is started with an empty queue; the callers will submit
\* between one and MaxJobs jobs.
Init ==
    /\ settings \in FlagRenderings
    /\ pending \in 1..MaxJobs
    /\ enqueued = 0
    /\ rendering_task_queue = << >>
    /\ unfinished_tasks = 0
    /\ InitCommon
    /\ threads = NoThreads
    /\ call = NoCall

\* One job of any profile has been submitted and no other will be.
JobInit ==
    /\ settings \in JobRenderings
    /\ pending = 0
    /\ enqueued = 1
    /\ rendering_task_queue = << RenderJobInfo(1, settings) >>
    /\ unfinished_tasks = 1
    /\ InitCommon
    /\ threads = NoThreads
    /\ call = NoCall

\* ---------------------------------------------------------------- callers
\* A caller builds a descriptor from the active settings and puts it on the
\* queue (Queue.put: append, unfinished_tasks += 1, atomically).
Enqueue ==
    /\ pending > 0
    /\ rendering_task_queue' =
           Append(rendering_task_queue, RenderJobInfo(enqueued + 1, settings))
    /\ unfinished_tasks' = unfinished_tasks + 1
    /\ enqueued' = enqueued + 1
    /\ pending' = pending - 1
    /\ UNCHANGED <<settings, poller, observed>>
    /\ UNCHANGED <<processor_vars, pipeline_vars>>
    /\ UNCHANGED aside

\* is_processing(): with self.lock: return self._is_processing
IsProcessingAcquire ==
    /\ poller = "idle"
    /\ lock = "free"
    /\ lock' = "caller"
    /\ poller' = "locked"
    /\ UNCHANGED <<settings, pending, enqueued, observed, queue_vars, pipeline_vars>>
    /\ UNCHANGED <<job_count, _is_processing, pc, job_info, dequeue_ctx,
                   raised, render_end_count>>
    /\ UNCHANGED aside

\* the value is_processing() returns
IsProcessingResult == IF _is_processing THEN "True" ELSE "False"

IsProcessingReturn ==
    /\ poller = "locked"
    /\ observed' = IsProcessingResult
    /\ lock' = "free"
    /\ poller' = "idle"
    /\ UNCHANGED <<settings, pending, enqueued, queue_vars, pipeline_vars>>
    /\ UNCHANGED <<job_count, _is_processing, pc, job_info, dequeue_ctx,
                   raised, render_end_count>>
    /\ UNCHANGED aside

\* ----------------------------------------------------- RenderingProcessor.run
\* (variant: the job is started without waiting for it, so the loop
\* goes on to the next get() while the pipeline runs)
CanDequeue_NoWait == pc \in {"get", "process"}

\* The worker is at the top of its loop, about to call get(timeout=5).
CanDequeue == pc = "get"

\* (variant: the newest item is taken, as a LifoQueue would)
QueueGet_Lifo(q) == [item |-> q[Len(q)], rest |-> SubSeq(q, 1, Len(q) - 1)]

\* Queue.get on a non-empty queue: the item removed and the queue left.
QueueGet(q) == [item |-> Head(q), rest |-> Tail(q)]

\* Queue.qsize()
qsize == Len(rendering_task_queue)

\* get() returns a descriptor; self.job_count += 1
WorkerGet ==
    /\ CanDequeue
    /\ rendering_task_queue # << >>
    /\ LET got == QueueGet(rendering_task_queue) IN
         /\ job_info' = got.item
         /\ rendering_task_queue' = got.rest
         /\ dequeue_ctx' = [enqueued |-> enqueued, dequeued |-> job_count,
                            depth |-> Len(got.rest), stamped_at |-> 0]
    /\ job_count' = job_count + 1
    /\ pc' = "lock_true"
    /\ UNCHANGED <<caller_vars, pipeline_vars, unfinished_tasks, _is_processing,
                   lock, raised, render_end_count>>
    /\ UNCHANGED aside

\* get() finds the queue empty for the whole timeout: Queue.Empty
WorkerTimeout ==
    /\ CanDequeue
    /\ rendering_task_queue = << >>
    /\ pc' = "timeout"
    /\ UNCHANGED <<caller_vars, pipeline_vars, queue_vars, job_count,
                   _is_processing, lock, job_info, dequeue_ctx, raised,
                   render_end_count>>
    /\ UNCHANGED aside

\* (variant: the loop is left when get() times out)
WorkerTimeoutClear_LeavesLoop ==
    /\ pc = "timeout"
    /\ _is_processing' = IF _is_processing THEN FALSE ELSE _is_processing
    /\ pc' = "dead"
    /\ UNCHANGED <<caller_vars, pipeline_vars, queue_vars, job_count, lock,
                   job_info, dequeue_ctx, raised, render_end_count>>
    /\ UNCHANGED aside

\* except Queue.Empty: if self._is_processing: self._is_processing = False
WorkerTimeoutClear ==
    /\ pc = "timeout"
    /\ _is_processing' = IF _is_processing THEN FALSE ELSE _is_processing
    /\ pc' = "get"
    /\ UNCHANGED <<caller_vars, pipeline_vars, queue_vars, job_count, lock,
                   job_info, dequeue_ctx, raised, render_end_count>>
    /\ UNCHANGED aside

\* with self.lock: (entering), before the job is processed
WorkerLockTrue ==
    /\ pc = "lock_true"
    /\ lock = "free"
    /\ lock' = "worker"
    /\ pc' = "set_true"
    /\ UNCHANGED <<caller_vars, pipeline_vars, queue_vars, job_count,
                   _is_processing, job_info, dequeue_ctx, raised, render_end_count>>
    /\ UNCHANGED aside

\* (variant: the flag is left as it was when a job is dequeued)
ProcessingStarted_Unset == _is_processing

\* the value line 223 stores in the flag
ProcessingStarted == TRUE

\* self._is_processing = True, and the lock is released
WorkerSetTrue ==
    /\ pc = "set_true"
    /\ _is_processing' = ProcessingStarted
    /\ lock' = "free"
    /\ pc' = "stamp"
    /\ UNCHANGED <<caller_vars, pipeline_vars, queue_vars, job_count, job_info,
                   dequeue_ctx, raised, render_end_count>>
    /\ UNCHANGED aside

\* (variant: the job itself is counted among the remaining ones)
JobsRemainingStamp_Inclusive == qsize + 1

\* the value line 226 stamps as jobs_remaining
JobsRemainingStamp == qsize

\* job_info.job_number = self.job_count; job_info.jobs_remaining = qsize()
WorkerStamp ==
    /\ pc = "stamp"
    /\ job_info' = [job_info EXCEPT !.job_number = job_count,
                                    !.jobs_remaining = JobsRemainingStamp]
    /\ dequeue_ctx' = [dequeue_ctx EXCEPT !.stamped_at = enqueued]
    /\ pc' = "construct"
    /\ UNCHANGED <<caller_vars, pipeline_vars, queue_vars, job_count,
                   _is_processing, lock, raised, render_end_count>>
    /\ UNCHANGED aside

\* job = TimelapseRenderJob(...); job.process() is entered
WorkerProcess ==
    /\ pc = "construct"
    /\ job' = TimelapseRenderJob(job_info)
    /\ ppc' = "prerender_start"
    /\ executing' = executing \cup {job_info.job_id}
    /\ temp_dir' = NoDir
    /\ snapshot_dir' = {}
    /\ encoder_runs' = 0
    /\ raised' = NoError
    /\ pc' = "process"
    /\ callback_log' = << >>
    /\ last_payload' = NoPayload
    /\ UNCHANGED <<caller_vars, queue_vars, job_count, _is_processing, lock,
                   job_info, dequeue_ctx, render_end_count, render_job_lock,
                   prerender_fired, terminal_fired>>
    /\ UNCHANGED aside

\* (variant: the exception that left process() is logged and dropped)
WorkerTaskDone_Absorbing ==
    /\ pc = "task_done"
    /\ unfinished_tasks' = unfinished_tasks - 1
    /\ pc' = "check_empty"
    /\ UNCHANGED <<caller_vars, pipeline_vars, rendering_task_queue, job_count,
                   _is_processing, lock, job_info, dequeue_ctx, raised,
                   render_end_count>>
    /\ UNCHANGED aside

\* (variant: task_done() follows process() without a finally clause)
WorkerTaskDone_OnlyOnReturn ==
    /\ pc = "task_done"
    /\ unfinished_tasks' = IF raised # NoError THEN unfinished_tasks
                           ELSE unfinished_tasks - 1
    /\ pc' = IF raised # NoError THEN "dead" ELSE "check_empty"
    /\ UNCHANGED <<caller_vars, pipeline_vars, rendering_task_queue, job_count,
                   _is_processing, lock, job_info, dequeue_ctx, raised,
                   render_end_count>>
    /\ UNCHANGED aside

\* finally: self.rendering_task_queue.task_done(); an exception that left
\* process() is re-raised and ends the thread
WorkerTaskDone ==
    /\ pc = "task_done"
    /\ unfinished_tasks' = unfinished_tasks - 1
    /\ pc' = IF raised # NoError THEN "dead" ELSE "check_empty"
    /\ UNCHANGED <<caller_vars, pipeline_vars, rendering_task_queue, job_count,
                   _is_processing, lock, job_info, dequeue_ctx, raised,
                   render_end_count>>
    /\ UNCHANGED aside

\* if self.rendering_task_queue.qsize() == 0:
WorkerCheckEmpty ==
    /\ pc = "check_empty"
    /\ pc' = IF qsize = 0 THEN "lock_false" ELSE "get"
    /\ UNCHANGED <<caller_vars, pipeline_vars, queue_vars, job_count,
                   _is_processing, lock, job_info, dequeue_ctx, raised,
                   render_end_count>>
    /\ UNCHANGED aside

\* with self.lock: (entering), after the queue was seen empty
WorkerLockFalse ==
    /\ pc = "lock_false"
    /\ lock = "free"
    /\ lock' = "worker"
    /\ pc' = "set_false"
    /\ UNCHANGED <<caller_vars, pipeline_vars, queue_vars, job_count,
                   _is_processing, job_info, dequeue_ctx, raised, render_end_count>>
    /\ UNCHANGED aside

\* self._is_processing = False, and the lock is released
WorkerSetFalse ==
    /\ pc = "set_false"
    /\ _is_processing' = FALSE
    /\ lock' = "free"
    /\ pc' = "render_end"
    /\ UNCHANGED <<caller_vars, pipeline_vars, queue_vars, job_count, job_info,
                   dequeue_ctx, raised, render_end_count>>
    /\ UNCHANGED aside

\* What an observer callback does: it returns, or it raises.
CallbackOutcomes == {"return", "raise"}

\* self.on_render_end(): the batch-end callback; if it raises, nothing in
\* run() catches it and the thread ends
WorkerRenderEnd ==
    /\ pc = "render_end"
    /\ \E outcome \in CallbackOutcomes :
         /\ pc' = IF outcome = "raise" THEN "dead" ELSE "get"
         /\ raised' = IF outcome = "raise" THEN PyException("Exception") ELSE raised
    /\ render_end_count' = render_end_count + 1
    /\ UNCHANGED <<caller_vars, queue_vars, job_count, _is_processing, lock,
                   job_info, dequeue_ctx>>
    /\ UNCHANGED pipeline_vars
    /\ UNCHANGED aside

\* ------------------------------------------------- TimelapseRenderJob helpers
\* create_callback_payload, with the callback it is handed to and, for
\* on_render_error, the error passed beside it
CreateCallbackPayload(name, error) ==
    [callback |-> name,
     JobId |-> job_info.job_id,
     JobNumber |-> job_info.job_number,
     JobsRemaining |-> job_info.jobs_remaining,
     SnapshotCount |-> job.imageCount,
     Synchronize |-> job.synchronize,
     RenderingFilename |-> job.output_filename,
     BeforeRenderError |-> job.before_render_error,
     AfterRenderError |-> job.after_render_error,
     error |-> error]

\* a callback is invoked with a fresh payload
TerminalCallbacks == {"render_success", "render_error"}

Notify(name, error) ==
    /\ callback_log' = Append(callback_log, name)
    /\ prerender_fired' = IF name = "prerender_start"
                          THEN prerender_fired \cup {job_info.job_id}
                          ELSE prerender_fired
    /\ terminal_fired' = IF name \in TerminalCallbacks
                         THEN terminal_fired \cup {job_info.job_id}
                         ELSE terminal_fired
    /\ last_payload' = CreateCallbackPayload(name, error)

\* an exception raised inside the try block of _render reaches its handler
Raise(e) ==
    /\ job' = [job EXCEPT !.exc = e]
    /\ ppc' = "except"

\* _render is left: process() returns, or e (not NoError) propagates to run()
Leave(e) ==
    /\ ppc' = "idle"
    /\ executing' = executing \ {job_info.job_id}
    /\ raised' = e
    /\ pc' = "task_done"

\* utility.round_to(frames / seconds, 0.001), in thousandths
RoundTo(frames, seconds) == (2 * 1000 * frames + seconds) \div (2 * seconds)

\* (variant: the rounded quotient is used without the clamp)
CalculateFps_Unclamped(rendering, imageCount) ==
    IF rendering.fps_calculation_type = "duration"
    THEN RoundTo(imageCount, rendering.run_length_seconds)
    ELSE rendering.fps

\* _calculate_fps: the frame rate, in thousandths
CalculateFps(rendering, imageCount) ==
    IF rendering.fps_calculation_type = "duration"
    THEN LET f == RoundTo(imageCount, rendering.run_length_seconds) IN
         IF f > rendering.max_fps THEN rendering.max_fps
         ELSE IF f < rendering.min_fps THEN rendering.min_fps
         ELSE f
    ELSE rendering.fps

\* int(math.ceil(self._fps))
FpsToken(fps) == (fps + 999) \div 1000

\* output_template.format(**output_tokens): the name, or the exception
FormatTemplate(template) ==
    CASE template = "{GCODEFILENAME}" -> [exc |-> "None", name |-> "print"]
      [] template = "{UNKNOWN}" -> [exc |-> "KeyError", name |-> ""]
      [] template = "{0}" -> [exc |-> "IndexError", name |-> ""]
      [] OTHER -> [exc |-> "ValueError", name |-> ""]

\* (variant: only the empty directory is refused)
InsufficientImages_ZeroOnly(n) == n = 0

\* _pre_render's test on the frame count (lines 346 and 351)
InsufficientImages(n) == n = 0 \/ n = 1

\* shutil.move / shutil.copy of one frame file inside a directory
MoveFile(files, a, b) ==
    [j \in (DOMAIN files \ {a}) \cup {b} |-> IF j = b THEN files[a] ELSE files[j]]

CopyFile(files, a, b) ==
    [j \in DOMAIN files \cup {b} |-> IF j = b THEN files[a] ELSE files[j]]

\* for image_number in range(imageCount - 1, -1, -1): move to image_number + N
RECURSIVE RenameUp(_, _, _)
RenameUp(files, image_number, N) ==
    IF image_number < 0 THEN files
    ELSE RenameUp(MoveFile(files, image_number, image_number + N),
                  image_number - 1, N)

\* for image_index in range(count): copy src to first + image_index
RECURSIVE CopyRange(_, _, _, _, _)
CopyRange(files, src, first, image_index, count) ==
    IF image_index >= count THEN files
    ELSE CopyRange(CopyFile(files, src, first + image_index), src, first,
                   image_index + 1, count)

\* (variant: the last frame is looked up where it was before the pre roll)
LastFrameIndex_BeforePreRoll(imageCount, pre_roll_frames) == imageCount - 1

\* last_frame_index = self._imageCount + pre_roll_frames - 1 (line 894)
LastFrameIndex(imageCount, pre_roll_frames) == imageCount + pre_roll_frames - 1

\* _apply_pre_post_roll on the files of the temporary directory
ApplyPrePostRoll(files, imageCount, fps, rendering) ==
    LET pre_roll_frames == (rendering.pre_roll_seconds * fps) \div 1000
        post_roll_frames == (rendering.post_roll_seconds * fps) \div 1000
        pre == IF pre_roll_frames > 0
               THEN CopyRange(RenameUp(files, imageCount - 1, pre_roll_frames),
                              pre_roll_frames, 0, 0, pre_roll_frames)
               ELSE files
        last_frame_index == LastFrameIndex(imageCount, pre_roll_frames)
    IN  IF post_roll_frames > 0
        THEN CopyRange(pre, last_frame_index, imageCount + pre_roll_frames,
                       0, post_roll_frames)
        ELSE pre

\* (variants: the success path deletes whatever the flag says; the failure
\* path reads the success flag)
ShouldCleanOnSuccess_Always == TRUE

ShouldCleanOnFail_WrongFlag ==
    job.cleanAfterSuccess /\ job.temp_rendering_dir # "None"

\* the cleanup conditions of _render (lines 702 and 734-736)
ShouldCleanOnSuccess == job.cleanAfterSuccess

ShouldCleanOnFail == job.cleanAfterFail /\ job.temp_rendering_dir # "None"

\* the handler's normalisation (lines 728-733)
Normalise(e) ==
    IF e.cls = "RenderError" THEN e ELSE RenderError("render-error", e.cls)

\* ------------------------------------------------ TimelapseRenderJob._render
\* what no step of the pipeline changes
worker_rest == <<caller_vars, queue_vars, job_count, _is_processing, lock,
                 dequeue_ctx, render_end_count>>

\* what a step that stays inside _render leaves alone
stay == <<executing, raised, pc>>

\* What can happen to a script that is run.
ScriptEvents == {"exit_zero", "exit_nonzero", "launch_failure", "timeout"}

\* utility.POpenWithTimeout.run: it returns the script's exit code, and
\* raises ProcessError for a script that cannot be launched or that runs
\* out of time
PopenOutcome(event) ==
    CASE event \in {"launch_failure", "timeout"} -> "process_error"
      [] event = "exit_nonzero" -> "nonzero"
      [] OTHER -> "ok"

\* Outcomes of a script stage: no script is configured, or of its run
\* (POpenWithTimeout.run).
ScriptOutcomes == {"no_script"} \cup {PopenOutcome(event) : event \in ScriptEvents}

\* the RenderError a script stage captures, or NoError
ScriptError(type, outcome) ==
    CASE outcome = "nonzero" -> RenderError(type, "None")
      [] outcome = "process_error" -> RenderError(type, "ProcessError")
      [] OTHER -> NoError

\* (variant: the script stages let their RenderError propagate)
CaughtByScriptStage_Never(e) == FALSE

\* except RenderError as e: (lines 415 and 485)
CaughtByScriptStage(e) == e.cls = "RenderError"

\* self.on_prerender_start(self.create_callback_payload(...))
PrerenderStart ==
    /\ ppc = "prerender_start"
    /\ Notify("prerender_start", NoError)
    /\ \E outcome \in CallbackOutcomes :
         IF outcome = "raise"
         THEN Raise(PyException("Exception"))
         ELSE job' = job /\ ppc' = "pre_render_script"
    /\ UNCHANGED <<worker_rest, stay, job_info, render_job_lock, temp_dir,
                   snapshot_dir, encoder_runs>>
    /\ UNCHANGED aside

\* self._pre_render_script(): a failure is kept in before_render_error
PreRenderScript ==
    /\ ppc = "pre_render_script"
    /\ \E outcome \in ScriptOutcomes :
         LET e == ScriptError("before_render_script_error", outcome) IN
         IF e = NoError \/ CaughtByScriptStage(e)
         THEN /\ job' = [job EXCEPT !.before_render_error = e]
              /\ ppc' = "pre_render"
         ELSE Raise(e)
    /\ UNCHANGED <<worker_rest, stay, job_info, render_job_lock, temp_dir,
                   snapshot_dir, encoder_runs, callback_vars>>
    /\ UNCHANGED aside

\* self._pre_render(): _read_snapshot_metadata finds n frames, with or
\* without a metadata file; then the frame-count tests, _calculate_fps
\* and _set_outputs
PreRender ==
    /\ ppc = "pre_render"
    /\ \E n \in 0..MaxFrames, metadata \in {"None", "list"} :
         LET fps == CalculateFps(job.rendering, n)
             fmt == FormatTemplate(job.rendering.output_template)
             found == [job EXCEPT !.imageCount = n, !.snapshot_metadata = metadata]
         IN
         /\ snapshot_dir' = 0..(n - 1)
         /\ IF InsufficientImages(n)
            THEN /\ job' = [found EXCEPT
                               !.exc = RenderError("insufficient-images", "None")]
                 /\ job_info' = [job_info EXCEPT !.output_tokens.SNAPSHOTCOUNT = n]
                 /\ ppc' = "except"
            ELSE /\ job_info' = [job_info EXCEPT !.output_tokens.SNAPSHOTCOUNT = n,
                                                 !.output_tokens.FPS = FpsToken(fps)]
                 /\ IF fps < 1000
                    THEN /\ job' = [found EXCEPT !.fps = fps,
                                       !.exc = RenderError("insufficient-images", "None")]
                         /\ ppc' = "except"
                    ELSE IF fmt.exc \in {"KeyError", "IndexError"}
                    THEN /\ job' = [found EXCEPT !.fps = fps,
                                                 !.exc = PyException(fmt.exc)]
                         /\ ppc' = "except"
                    ELSE /\ job' = [found EXCEPT !.fps = fps,
                                       !.output_filename =
                                          IF fmt.exc = "ValueError"
                                          THEN "RenderingFilenameTemplateError"
                                          ELSE fmt.name]
                         /\ ppc' = "render_start"
    /\ UNCHANGED <<worker_rest, stay, render_job_lock, temp_dir, encoder_runs,
                   callback_vars>>
    /\ UNCHANGED aside

\* self.on_render_start(self.create_callback_payload(...))
RenderStart ==
    /\ ppc = "render_start"
    /\ Notify("render_start", NoError)
    /\ \E outcome \in CallbackOutcomes :
         IF outcome = "raise"
         THEN Raise(PyException("Exception"))
         ELSE job' = job /\ ppc' = "mkdtemp"
    /\ UNCHANGED <<worker_rest, stay, job_info, render_job_lock, temp_dir,
                   snapshot_dir, encoder_runs>>
    /\ UNCHANGED aside

\* (variant: no directory is made before the precondition checks)
Mkdtemp_NotYet ==
    /\ ppc = "mkdtemp"
    /\ job' = job
    /\ temp_dir' = temp_dir
    /\ ppc' = "preconditions"
    /\ UNCHANGED <<worker_rest, stay, job_info, render_job_lock, snapshot_dir,
                   encoder_runs, callback_vars>>
    /\ UNCHANGED aside

\* self.temp_rendering_dir = mkdtemp(prefix='octolapse_render')
Mkdtemp ==
    /\ ppc = "mkdtemp"
    /\ job' = [job EXCEPT !.temp_rendering_dir = "octolapse_render"]
    /\ temp_dir' = [exists |-> TRUE, frames |-> << >>]
    /\ ppc' = "preconditions"
    /\ UNCHANGED <<worker_rest, stay, job_info, render_job_lock, snapshot_dir,
                   encoder_runs, callback_vars>>
    /\ UNCHANGED aside

\* (variant: the watermark is validated before the output directory is made)
PreconditionError_WatermarkFirst(makedirs_ok, watermark_exists) ==
    IF job.ffmpeg = "None" THEN RenderError("ffmpeg_path", "None")
    ELSE IF job.rendering.bitrate = "None" THEN RenderError("no-bitrate", "None")
    ELSE IF job.rendering.enable_watermark /\ job.rendering.selected_watermark = ""
    THEN RenderError("watermark-path", "None")
    ELSE IF job.rendering.enable_watermark /\ ~watermark_exists
    THEN RenderError("watermark-non-existent", "None")
    ELSE IF ~makedirs_ok THEN RenderError("create-render-path", "OSError")
    ELSE NoError

\* the checks of lines 635-663, in the order of the code
PreconditionError(makedirs_ok, watermark_exists) ==
    IF job.ffmpeg = "None" THEN RenderError("ffmpeg_path", "None")
    ELSE IF job.rendering.bitrate = "None" THEN RenderError("no-bitrate", "None")
    ELSE IF ~makedirs_ok THEN RenderError("create-render-path", "OSError")
    ELSE IF job.rendering.enable_watermark /\ job.rendering.selected_watermark = ""
    THEN RenderError("watermark-path", "None")
    ELSE IF job.rendering.enable_watermark /\ ~watermark_exists
    THEN RenderError("watermark-non-existent", "None")
    ELSE NoError

\* os.makedirs is called once the encoder path and the bitrate were found set
MakedirsCalled == job.ffmpeg # "None" /\ job.rendering.bitrate # "None"

\* os.path.exists(watermark_path) is called once the directory is there, for
\* an enabled watermark with a path
WatermarkLookedUp(makedirs_ok) ==
    /\ MakedirsCalled
    /\ makedirs_ok
    /\ job.rendering.enable_watermark
    /\ job.rendering.selected_watermark # ""

Preconditions ==
    /\ ppc = "preconditions"
    /\ \E makedirs_ok \in (IF MakedirsCalled THEN BOOLEAN ELSE {TRUE}) :
       \E watermark_exists \in
              (IF WatermarkLookedUp(makedirs_ok) THEN BOOLEAN ELSE {TRUE}) :
         LET e == PreconditionError(makedirs_ok, watermark_exists)
             answered == [job EXCEPT !.fs = [makedirs_ok |-> makedirs_ok,
                                             watermark_exists |-> watermark_exists]]
         IN  IF e # NoError
             THEN job' = [answered EXCEPT !.exc = e] /\ ppc' = "except"
             ELSE job' = answered /\ ppc' = "preprocess"
    /\ UNCHANGED <<worker_rest, stay, job_info, render_job_lock, temp_dir,
                   snapshot_dir, encoder_runs, callback_vars>>
    /\ UNCHANGED aside

\* What can stop _preprocess_images at a frame: a missing or unreadable file,
\* and, with metadata, the errors of add_overlay.
PreprocessErrors(metadata) ==
    IF metadata = "None"
    THEN {PyException("IOError")}
    ELSE {PyException("IOError"), RenderError("overlay-font", "None"),
          RenderError("overlay-text-valign", "None"),
          RenderError("overlay-text-halign", "None")}

\* self._preprocess_images(self.temp_rendering_dir): k frames are handled
\* before it ends (all of them) or raises. Without metadata each frame is
\* moved out of the snapshot directory; with metadata the processed image
\* is saved to the temporary directory.
Preprocess ==
    /\ ppc = "preprocess"
    /\ \E k \in 0..job.imageCount :
         /\ temp_dir' = [temp_dir EXCEPT !.frames = [i \in 0..(k - 1) |-> i]]
         /\ snapshot_dir' = IF job.snapshot_metadata = "None"
                            THEN snapshot_dir \ (0..(k - 1))
                            ELSE snapshot_dir
         /\ IF k = job.imageCount
            THEN job' = job /\ ppc' = "pre_post_roll"
            ELSE \E e \in PreprocessErrors(job.snapshot_metadata) : Raise(e)
    /\ UNCHANGED <<worker_rest, stay, job_info, render_job_lock, encoder_runs,
                   callback_vars>>
    /\ UNCHANGED aside

\* self._apply_pre_post_roll(self.temp_rendering_dir)
PrePostRoll ==
    /\ ppc = "pre_post_roll"
    /\ temp_dir' = [temp_dir EXCEPT !.frames =
                       ApplyPrePostRoll(@, job.imageCount, job.fps, job.rendering)]
    /\ ppc' = "encode_acquire"
    /\ UNCHANGED <<worker_rest, stay, job_info, job, render_job_lock,
                   snapshot_dir, encoder_runs, callback_vars>>
    /\ UNCHANGED aside

\* (variant: render_job_lock as an attribute of each instance, so that
\* no pipeline ever finds it held by another)
LockAvailable_PerInstance(holder, me) == TRUE

\* TimelapseRenderJob.render_job_lock, one RLock of the class (line 283):
\* acquire succeeds when it is free (0) or held by the acquiring thread
LockAvailable(holder, me) == holder \in {0, me}

\* with self.render_job_lock: (an RLock: free, or held by this thread)
EncodeAcquire ==
    /\ ppc = "encode_acquire"
    /\ LockAvailable(render_job_lock, job_info.job_id)
    /\ render_job_lock' = job_info.job_id
    /\ ppc' = "encode"
    /\ UNCHANGED <<worker_rest, stay, job_info, job, temp_dir, snapshot_dir,
                   encoder_runs, callback_vars>>
    /\ UNCHANGED aside

\* Outcomes of sarge.run on the ffmpeg command.
EncoderOutcomes == {"ok", "nonzero", "launch_error"}

\* the result of sarge.run for each outcome
SargeRun(outcome) ==
    CASE outcome = "launch_error" ->
           [ran |-> TRUE, raised |-> TRUE, returncode |-> 0, stderr_text |-> ""]
      [] outcome = "nonzero" ->
           [ran |-> TRUE, raised |-> FALSE, returncode |-> 1,
            stderr_text |-> "stderr_text"]
      [] OTHER ->
           [ran |-> TRUE, raised |-> FALSE, returncode |-> 0, stderr_text |-> ""]

\* (variant: the two error kinds of the encode stage exchanged)
EncodeError_KindsExchanged(run) ==
    IF run.raised
    THEN [RenderError("return-code", "None") EXCEPT !.message = run.stderr_text]
    ELSE IF run.returncode # 0
    THEN RenderError("rendering-exception", "Exception")
    ELSE NoError

\* the RenderError the encode stage raises for a result of sarge.run
\* (lines 688-696), or NoError
EncodeError(run) ==
    IF run.raised
    THEN RenderError("rendering-exception", "Exception")
    ELSE IF run.returncode # 0
    THEN [RenderError("return-code", "None") EXCEPT !.message = run.stderr_text]
    ELSE NoError

\* sarge.run(command_str, ...) and the return-code test; the with block
\* releases the lock however it is left
Encode ==
    /\ ppc = "encode"
    /\ encoder_runs' = encoder_runs + 1
    /\ render_job_lock' = 0
    /\ \E outcome \in EncoderOutcomes :
         LET run == SargeRun(outcome)
             e == EncodeError(run)
         IN  IF e # NoError
             THEN /\ job' = [job EXCEPT !.p = run, !.exc = e]
                  /\ ppc' = "except"
             ELSE /\ job' = [job EXCEPT !.p = run]
                  /\ ppc' = "post_render_script"
    /\ UNCHANGED <<worker_rest, stay, job_info, temp_dir, snapshot_dir,
                   callback_vars>>
    /\ UNCHANGED aside

\* self._post_render_script(): a failure is kept in after_render_error
PostRenderScript ==
    /\ ppc = "post_render_script"
    /\ \E outcome \in ScriptOutcomes :
         LET e == ScriptError("after_render_script_error", outcome) IN
         IF e = NoError \/ CaughtByScriptStage(e)
         THEN /\ job' = [job EXCEPT !.after_render_error = e]
              /\ ppc' = "cleanup_success"
         ELSE Raise(e)
    /\ UNCHANGED <<worker_rest, stay, job_info, render_job_lock, temp_dir,
                   snapshot_dir, encoder_runs, callback_vars>>
    /\ UNCHANGED aside

\* if self.cleanAfterSuccess: shutil.rmtree(self.temp_rendering_dir)
\* (rmtree raises OSError on a path that does not exist)
CleanupSuccess ==
    /\ ppc = "cleanup_success"
    /\ IF ShouldCleanOnSuccess
       THEN IF temp_dir.exists
            THEN temp_dir' = NoDir /\ job' = job /\ ppc' = "synchronize"
            ELSE temp_dir' = temp_dir /\ Raise(PyException("OSError"))
       ELSE temp_dir' = temp_dir /\ job' = job /\ ppc' = "synchronize"
    /\ UNCHANGED <<worker_rest, stay, job_info, render_job_lock, snapshot_dir,
                   encoder_runs, callback_vars>>
    /\ UNCHANGED aside

\* if self._synchronize: shutil.move(output, synchronization_path)
Synchronize ==
    /\ ppc = "synchronize"
    /\ IF job.synchronize
       THEN \E moved \in BOOLEAN :
              IF moved
              THEN job' = job /\ ppc' = "terminal"
              ELSE Raise(RenderError("synchronizing-exception", "Exception"))
       ELSE job' = job /\ ppc' = "terminal"
    /\ UNCHANGED <<worker_rest, stay, job_info, render_job_lock, temp_dir,
                   snapshot_dir, encoder_runs, callback_vars>>
    /\ UNCHANGED aside

\* except Exception as e: normalise, then delete the temporary directory if
\* cleanAfterFail; an OSError of that rmtree leaves _render
Except ==
    /\ ppc = "except"
    /\ job' = [job EXCEPT !.r_error = Normalise(job.exc), !.exc = NoError]
    /\ IF ShouldCleanOnFail
       THEN IF temp_dir.exists
            THEN /\ temp_dir' = NoDir
                 /\ ppc' = "terminal"
                 /\ UNCHANGED stay
            ELSE /\ temp_dir' = temp_dir
                 /\ Leave(PyException("OSError"))
       ELSE /\ temp_dir' = temp_dir
            /\ ppc' = "terminal"
            /\ UNCHANGED stay
    /\ UNCHANGED <<worker_rest, job_info, render_job_lock, snapshot_dir,
                   encoder_runs, callback_vars>>
    /\ UNCHANGED aside

\* on_render_success(payload) if r_error is None, else
\* on_render_error(payload, r_error); then _render returns, or the
\* callback's exception leaves it
Terminal ==
    /\ ppc = "terminal"
    /\ Notify(IF job.r_error = NoError THEN "render_success" ELSE "render_error",
              job.r_error)
    /\ \E outcome \in CallbackOutcomes :
         Leave(IF outcome = "raise" THEN PyException("Exception") ELSE NoError)
    /\ UNCHANGED <<worker_rest, job_info, job, render_job_lock, temp_dir,
                   snapshot_dir, encoder_runs>>
    /\ UNCHANGED aside

\* ------------------------------------------------------------ specifications
Worker ==
    \/ WorkerGet \/ WorkerTimeout \/ WorkerTimeoutClear
    \/ WorkerLockTrue \/ WorkerSetTrue \/ WorkerStamp \/ WorkerProcess
    \/ WorkerTaskDone \/ WorkerCheckEmpty \/ WorkerLockFalse \/ WorkerSetFalse
    \/ WorkerRenderEnd

Pipeline ==
    \/ PrerenderStart \/ PreRenderScript \/ PreRender \/ RenderStart
    \/ Mkdtemp \/ Preconditions \/ Preprocess \/ PrePostRoll
    \/ EncodeAcquire \/ Encode \/ PostRenderScript \/ CleanupSuccess
    \/ Synchronize \/ Except \/ Terminal

Next == Enqueue \/ IsProcessingAcquire \/ IsProcessingReturn \/ Worker \/ Pipeline

Spec == Init /\ [][Next]_vars

JobNext == Worker \/ Pipeline

JobSpec == JobInit /\ [][JobNext]_vars

\* Jobs of one of two profiles are submitted to a processor just started:
\* a profile that renders, and one whose bitrate is unset and whose flags
\* differ.
FairInit ==
    /\ settings \in {DefaultRendering,
                     [DefaultRendering EXCEPT
                         !.bitrate = "None",
                         !.cleanup_after_render_complete = FALSE,
                         !.cleanup_after_render_fail = TRUE,
                         !.sync_with_timelapse = FALSE]}
    /\ pending \in 1..MaxJobs
    /\ enqueued = 0
    /\ rendering_task_queue = << >>
    /\ unfinished_tasks = 0
    /\ InitCommon
    /\ threads = NoThreads
    /\ call = NoCall

\* Callers enqueue when they like; no caller of is_processing() is
\* followed (one holds the lock for a single statement). The worker thread
\* is scheduled as long as it can take a step.
FairNext == Enqueue \/ Worker \/ Pipeline

FairSpec ==
    /\ FairInit
    /\ [][FairNext]_vars
    /\ WF_vars(Worker \/ Pipeline)

\* The worker thread is scheduled as long as it can take a step.
FairJobSpec == JobInit /\ [][JobNext]_vars /\ WF_vars(JobNext)

\* ------------------------------------- several workers at the encode stage
\* RenderingProcessor threads in one process, each running the pipelines of
\* its own queue; only the encode stage (lines 684-696) is followed.
MaxWorkers == 2

\* pipelines each of these workers runs
MaxEncodes == 2

Workers == 1..MaxWorkers

\* the processor of the single-worker development, never started
IdleProcessor ==
    /\ settings = DefaultRendering
    /\ pending = 0
    /\ enqueued = 0
    /\ rendering_task_queue = << >>
    /\ unfinished_tasks = 0
    /\ InitCommon

\* everything but render_job_lock and threads
beside_encode == <<settings, pending, enqueued, rendering_task_queue,
                   unfinished_tasks, job_count, _is_processing, lock, pc,
                   job_info, dequeue_ctx, job, ppc, executing, raised, temp_dir,
                   snapshot_dir, encoder_runs, callback_log, prerender_fired,
                   terminal_fired, last_payload, render_end_count, poller,
                   observed, call>>

\* every worker has built its first ffmpeg command (line 677)
EncodeInit ==
    /\ IdleProcessor
    /\ call = NoCall
    /\ threads = [w \in Workers |-> [at |-> "command", p |-> NoRun, encodes |-> 0]]

\* with self.render_job_lock: of worker w's pipeline (line 684)
ThreadAcquire(w) ==
    /\ threads[w].at = "command"
    /\ LockAvailable(render_job_lock, w)
    /\ render_job_lock' = w
    /\ threads' = [threads EXCEPT ![w].at = "sarge_run"]
    /\ UNCHANGED beside_encode

\* p = sarge.run(...): an exception is re-raised as RenderError and the with
\* block releases the lock (lines 685-691)
ThreadSargeRun(w) ==
    /\ threads[w].at = "sarge_run"
    /\ \E outcome \in EncoderOutcomes :
         LET run == SargeRun(outcome) IN
         IF run.raised
         THEN /\ threads' = [threads EXCEPT ![w].at = "raised", ![w].p = run]
              /\ render_job_lock' = 0
         ELSE /\ threads' = [threads EXCEPT ![w].at = "returncode_test", ![w].p = run]
              /\ render_job_lock' = render_job_lock
    /\ UNCHANGED beside_encode

\* if p.returncode != 0: raise RenderError('return-code', ...); the with
\* block is left, by the raise or at its end (lines 692-696)
ThreadReturnCodeTest(w) ==
    /\ threads[w].at = "returncode_test"
    /\ threads' = [threads EXCEPT ![w].at =
                      IF EncodeError(threads[w].p) # NoError
                      THEN "raised" ELSE "post_render_script"]
    /\ render_job_lock' = 0
    /\ UNCHANGED beside_encode

\* the pipeline ends and the worker's next pipeline reaches its encode stage
ThreadNextPipeline(w) ==
    /\ threads[w].at \in {"raised", "post_render_script"}
    /\ threads[w].encodes + 1 < MaxEncodes
    /\ threads' = [threads EXCEPT ![w] = [at |-> "command", p |-> NoRun,
                                          encodes |-> @.encodes + 1]]
    /\ UNCHANGED <<render_job_lock, beside_encode>>

EncodeNext ==
    \E w \in Workers :
        \/ ThreadAcquire(w)
        \/ ThreadSargeRun(w)
        \/ ThreadReturnCodeTest(w)
        \/ ThreadNextPipeline(w)

EncodeSpec == EncodeInit /\ [][EncodeNext]_vars

\* ------------------------------------------- the caller edits its settings
\* The caller's profile as it is edited after a job was submitted: every
\* field the pipeline reads differs from DefaultRendering.
EditedRendering ==
    [cleanup_after_render_complete |-> FALSE,
     cleanup_after_render_fail |-> TRUE,
     sync_with_timelapse |-> FALSE,
     bitrate |-> "None",
     enable_watermark |-> TRUE,
     selected_watermark |-> "wm.png",
     fps_calculation_type |-> "duration",
     fps |-> 500,
     run_length_seconds |-> 2,
     min_fps |-> 500,
     max_fps |-> 1000,
     pre_roll_seconds |-> 1,
     post_roll_seconds |-> 1,
     output_template |-> "{UNKNOWN}",
     ffmpeg_path |-> "ffmpeg"]

EditProfiles == {DefaultRendering, EditedRendering}

\* What a holder of a profile object sees after the caller has edited its
\* own object: an object of its own is as it was, the caller's object is
\* the edited one.
SeenAfterEdit(object, held, edited) ==
    IF object = "caller" THEN edited ELSE held

\* the descriptor after the caller's edit
DescriptorAfterEdit(info, edited) ==
    [info EXCEPT !.rendering = SeenAfterEdit(info.rendering_object, @, edited)]

\* The caller assigns to the fields of its settings object. A pipeline's
\* self._rendering is the descriptor's object (lines 228 and 298); the
\* flags it was handed at construction are values of its own.
EditSettings ==
    /\ \E edited \in EditProfiles \ {settings} :
         /\ settings' = edited
         /\ rendering_task_queue' =
                [i \in DOMAIN rendering_task_queue |->
                    DescriptorAfterEdit(rendering_task_queue[i], edited)]
         /\ job_info' = DescriptorAfterEdit(job_info, edited)
         /\ job' = [job EXCEPT !.rendering =
                       SeenAfterEdit(job_info.rendering_object, @, edited)]
    /\ UNCHANGED <<pending, enqueued, unfinished_tasks, job_count,
                   _is_processing, lock, pc, dequeue_ctx, ppc, executing,
                   raised, render_job_lock, temp_dir, snapshot_dir,
                   encoder_runs, callback_vars, render_end_count, poller,
                   observed, aside>>

\* one job will be submitted
SnapshotInit ==
    /\ settings \in EditProfiles
    /\ pending = 1
    /\ enqueued = 0
    /\ rendering_task_queue = << >>
    /\ unfinished_tasks = 0
    /\ InitCommon
    /\ threads = NoThreads
    /\ call = NoCall

SnapshotNext == Enqueue \/ EditSettings \/ Worker \/ Pipeline

SnapshotSpec == SnapshotInit /\ [][SnapshotNext]_vars

\* ------------------------------------------------------- helper functions
\* everything but the helper call under study
beside_call == <<settings, pending, enqueued, rendering_task_queue,
                 unfinished_tasks, job_count, _is_processing, lock, pc,
                 job_info, dequeue_ctx, job, ppc, executing, raised,
                 render_job_lock, temp_dir, snapshot_dir, encoder_runs,
                 callback_log, prerender_fired, terminal_fired, last_payload,
                 render_end_count, poller, observed, threads>>

\* no helper is running in the processor
NoProcessor ==
    /\ IdleProcessor
    /\ threads = NoThreads

\* ---- _set_outputs: file name collisions
\* File names with the job's base name B and extension: 0 stands for B.ext
\* and N >= 1 for B_N.ext. The largest N a directory holds at the start:
MaxFileNumber == 2

\* (variant: the synchronized name is searched from the primary choice)
SynchronizedStart_Chained(original_output_filename, output_filename) ==
    output_filename

\* synchronized_output_filename = original_output_filename (line 576)
SynchronizedStart(original_output_filename, output_filename) ==
    original_output_filename

\* while os.path.isfile(<candidate>): file_number += 1;
\*     candidate = "{0}_{1}".format(original_output_filename, file_number)
RECURSIVE CollisionLoop(_, _, _)
CollisionLoop(files, candidate, file_number) ==
    IF candidate \in files
    THEN CollisionLoop(files, file_number + 1, file_number + 1)
    ELSE candidate

\* the two names _set_outputs chooses (lines 561-589)
SetOutputs(primary_files, synchronized_files) ==
    LET original_output_filename == 0
        output_filename == CollisionLoop(primary_files, original_output_filename, 0)
    IN  [output_filename |-> output_filename,
         synchronized_filename |->
             CollisionLoop(synchronized_files,
                           SynchronizedStart(original_output_filename,
                                             output_filename), 0)]

\* the files present in the two directories when _set_outputs is called
SetOutputsInit ==
    /\ NoProcessor
    /\ \E primary_files \in SUBSET (0..MaxFileNumber),
          synchronized_files \in SUBSET (0..MaxFileNumber) :
         call = [fn |-> "_set_outputs", done |-> FALSE,
                 primary_files |-> primary_files,
                 synchronized_files |-> synchronized_files,
                 output_filename |-> 0, synchronized_filename |-> 0]

SetOutputsCall ==
    /\ call.fn = "_set_outputs"
    /\ ~call.done
    /\ LET chosen == SetOutputs(call.primary_files, call.synchronized_files) IN
         call' = [call EXCEPT !.done = TRUE,
                              !.output_filename = chosen.output_filename,
                              !.synchronized_filename = chosen.synchronized_filename]
    /\ UNCHANGED beside_call

SetOutputsSpec == SetOutputsInit /\ [][SetOutputsCall]_vars

\* ---- _apply_pre_post_roll
\* largest frame count and largest pre / post roll length (seconds) tried
MaxRollImages == 5

MaxRollSeconds == 3

\* frame rates tried, in thousandths: 1 fps and 1.5 fps
RollFps == {1000, 1500}

\* the working directory holds frames 0..imageCount-1, each with its own
\* content, when _apply_pre_post_roll is called
PrePostRollInit ==
    /\ NoProcessor
    /\ \E imageCount \in 2..MaxRollImages, fps \in RollFps,
          pre \in 0..MaxRollSeconds, post \in 0..MaxRollSeconds :
         call = [fn |-> "_apply_pre_post_roll", done |-> FALSE,
                 imageCount |-> imageCount, fps |-> fps,
                 rendering |-> [DefaultRendering EXCEPT !.pre_roll_seconds = pre,
                                                        !.post_roll_seconds = post],
                 files |-> [i \in 0..(imageCount - 1) |-> i]]

PrePostRollCall ==
    /\ call.fn = "_apply_pre_post_roll"
    /\ ~call.done
    /\ call' = [call EXCEPT !.done = TRUE,
                            !.files = ApplyPrePostRoll(call.files, call.imageCount,
                                                       call.fps, call.rendering)]
    /\ UNCHANGED beside_call

PrePostRollSpec == PrePostRollInit /\ [][PrePostRollCall]_vars

\* ---- _calculate_fps
\* largest frame count and target duration (seconds) tried, beside the
\* 100 frames in 10 s of the documented example
MaxFpsImages == 6

MaxRunLength == 3

FpsImageCounts == (0..MaxFpsImages) \cup {100}

FpsRunLengths == (1..MaxRunLength) \cup {10}

\* configured frame rates and limits tried, in thousandths: 0.5, 1, 1.5, 2.4
\* and 30 fps
FpsSettings == {500, 1000, 1500, 2400, 30000}

\* the profile and frame count _calculate_fps finds; min_fps <= max_fps
CalculateFpsInit ==
    /\ NoProcessor
    /\ \E imageCount \in FpsImageCounts, run_length \in FpsRunLengths,
          type \in {"static", "duration"}, fps \in FpsSettings,
          min_fps \in FpsSettings, max_fps \in FpsSettings :
         /\ min_fps <= max_fps
         /\ call = [fn |-> "_calculate_fps", done |-> FALSE,
                    imageCount |-> imageCount,
                    rendering |-> [DefaultRendering EXCEPT
                                      !.fps_calculation_type = type,
                                      !.fps = fps,
                                      !.run_length_seconds = run_length,
                                      !.min_fps = min_fps,
                                      !.max_fps = max_fps],
                    fps |-> NoCount, FPS |-> 0]

CalculateFpsCall ==
    /\ call.fn = "_calculate_fps"
    /\ ~call.done
    /\ LET fps == CalculateFps(call.rendering, call.imageCount) IN
         call' = [call EXCEPT !.done = TRUE, !.fps = fps, !.FPS = FpsToken(fps)]
    /\ UNCHANGED beside_call

CalculateFpsSpec == CalculateFpsInit /\ [][CalculateFpsCall]_vars

\* ---- add_overlay: the position of the text
\* largest image side and largest text extent tried (pixels)
MaxImageSize == 4

MaxTextSize == 3

\* alignment values: the three the code knows on each axis and one it
\* does not
VAligns == {"top", "middle", "bottom", "baseline"}

HAligns == {"left", "center", "right", "justify"}

\* (variant: the difference of the two sizes is halved)
AlignOffset_DifferenceHalved(align, size, textsize) ==
    CASE align \in {"top", "left"} -> 0
      [] align \in {"middle", "center"} -> (size - textsize) \div 2
      [] align \in {"bottom", "right"} -> size - textsize

\* what lines 838-845 add to y and lines 850-857 to x; "/" divides two
\* ints and rounds down (the module is Python 2 without true division)
AlignOffset(align, size, textsize) ==
    CASE align \in {"top", "left"} -> 0
      [] align \in {"middle", "center"} -> (size \div 2) - (textsize \div 2)
      [] align \in {"bottom", "right"} -> size - textsize

\* (variant: an alignment the code does not know is taken as top / left)
OverlayPosition_SilentDefault(location, size, textsize, valign, halign) ==
    [error |-> NoError,
     xy |-> << location[1]
                 + (IF halign \in {"left", "center", "right"}
                    THEN AlignOffset(halign, size[1], textsize[1]) ELSE 0),
               location[2]
                 + (IF valign \in {"top", "middle", "bottom"}
                    THEN AlignOffset(valign, size[2], textsize[2]) ELSE 0) >>]

\* add_overlay's position computation: the vertical alignment is handled
\* first, and an alignment it does not know raises
OverlayPosition(location, size, textsize, valign, halign) ==
    IF valign \notin {"top", "middle", "bottom"}
    THEN [error |-> RenderError("overlay-text-valign", "None"), xy |-> location]
    ELSE IF halign \notin {"left", "center", "right"}
    THEN [error |-> RenderError("overlay-text-halign", "None"), xy |-> location]
    ELSE [error |-> NoError,
          xy |-> << location[1] + AlignOffset(halign, size[1], textsize[1]),
                    location[2] + AlignOffset(valign, size[2], textsize[2]) >>]

\* base positions tried
OverlayLocations == {<<0, 0>>, <<1, 2>>}

\* overlay text templates: none, one that uses a format variable the code
\* supplies, one that uses a variable it does not supply
OverlayTemplates == {"", "{snapshot_number}", "{unknown}"}

\* font paths: none, a font file, a path that is not a font file
OverlayFonts == {"", "font.ttf", "missing.ttf"}

\* add_overlay from its first line: an empty template returns the image as
\* it is (line 821); text_template.format raises KeyError for a variable
\* that format_vars lacks (line 822); no font path raises 'overlay-font'
\* (line 826); ImageFont.truetype raises IOError for a file it cannot read
\* (line 827); then the position is computed and the text is drawn
AddOverlay(text_template, font_path, location, size, textsize, valign, halign) ==
    IF text_template = ""
    THEN [returned |-> "image", error |-> NoError, xy |-> location]
    ELSE IF text_template = "{unknown}"
    THEN [returned |-> "none", error |-> PyException("KeyError"), xy |-> location]
    ELSE IF font_path = ""
    THEN [returned |-> "none", error |-> RenderError("overlay-font", "None"),
          xy |-> location]
    ELSE IF font_path = "missing.ttf"
    THEN [returned |-> "none", error |-> PyException("IOError"), xy |-> location]
    ELSE LET position == OverlayPosition(location, size, textsize, valign, halign)
         IN  [returned |-> IF position.error = NoError THEN "overlay" ELSE "none",
              error |-> position.error,
              xy |-> position.xy]

\* an image, a text extent and the profile's alignment settings
AddOverlayInit ==
    /\ NoProcessor
    /\ \E W \in 1..MaxImageSize, H \in 1..MaxImageSize,
          tw \in 0..MaxTextSize, th \in 0..MaxTextSize,
          valign \in VAligns, halign \in HAligns,
          location \in OverlayLocations,
          text_template \in OverlayTemplates, font_path \in OverlayFonts :
         call = [fn |-> "add_overlay", done |-> FALSE,
                 text_template |-> text_template, font_path |-> font_path,
                 returned |-> "none",
                 size |-> <<W, H>>, textsize |-> <<tw, th>>,
                 overlay_location |-> location,
                 overlay_text_valign |-> valign,
                 overlay_text_halign |-> halign,
                 xy |-> location, error |-> NoError]

AddOverlayCall ==
    /\ call.fn = "add_overlay"
    /\ ~call.done
    /\ LET drawn == AddOverlay(call.text_template, call.font_path,
                               call.overlay_location, call.size,
                               call.textsize, call.overlay_text_valign,
                               call.overlay_text_halign) IN
         call' = [call EXCEPT !.done = TRUE, !.xy = drawn.xy,
                              !.error = drawn.error,
                              !.returned = drawn.returned]
    /\ UNCHANGED beside_call

AddOverlaySpec == AddOverlayInit /\ [][AddOverlayCall]_vars

\* ---- _pre_render: the output tokens
\* largest number of metadata rows or directory entries tried
MaxTokenFrames == 3

\* a token as stored by "{0}".format(value)
Str(value) == [type |-> "str", value |-> value]

\* the tokens _get_output_tokens leaves for the pipeline to fill (lines
\* 183-184): the integer 0
OutputTokens == [SNAPSHOTCOUNT |-> [type |-> "int", value |-> 0],
                 FPS |-> [type |-> "int", value |-> 0]]

\* (variant: the directory-listing path leaves the token alone)
ReadSnapshotMetadata_MetadataOnly(metadata, listing, output_tokens) ==
    IF metadata # NoCount
    THEN [imageCount |-> metadata,
          output_tokens |-> [output_tokens EXCEPT !.SNAPSHOTCOUNT = Str(metadata)]]
    ELSE [imageCount |-> IF listing = NoCount THEN 0 ELSE listing,
          output_tokens |-> output_tokens]

\* _read_snapshot_metadata: the rows of the metadata file, or, when it
\* cannot be read (IOError, NoCount here), the entries of the snapshot
\* directory (0 when the directory is missing, NoCount here)
ReadSnapshotMetadata(metadata, listing, output_tokens) ==
    IF metadata # NoCount
    THEN [imageCount |-> metadata,
          output_tokens |-> [output_tokens EXCEPT !.SNAPSHOTCOUNT = Str(metadata)]]
    ELSE LET imageCount == IF listing = NoCount THEN 0 ELSE listing
         IN  [imageCount |-> imageCount,
              output_tokens |-> [output_tokens EXCEPT
                                    !.SNAPSHOTCOUNT = Str(imageCount)]]

\* a template that names the two tokens
CountTemplate == "{SNAPSHOTCOUNT}_{FPS}"

\* output_template.format(**output_tokens) with the tokens' values put in
FormatTokens(template, output_tokens) ==
    IF template = CountTemplate
    THEN [exc |-> "None",
          name |-> <<output_tokens.SNAPSHOTCOUNT.value, output_tokens.FPS.value>>]
    ELSE FormatTemplate(template)

\* what _pre_render finds: the metadata file, the directory, the profile
PreRenderInit ==
    /\ NoProcessor
    /\ \E metadata \in {NoCount} \cup (0..MaxTokenFrames),
          listing \in {NoCount} \cup (0..MaxTokenFrames),
          fp \in FpsProfiles, run_length \in 1..2,
          template \in OutputTemplates \cup {CountTemplate} :
         call = [fn |-> "_pre_render", at |-> "_read_snapshot_metadata",
                 metadata |-> metadata, listing |-> listing,
                 rendering |-> [DefaultRendering EXCEPT
                                   !.fps_calculation_type = fp.type,
                                   !.fps = fp.fps,
                                   !.run_length_seconds = run_length,
                                   !.output_template = template],
                 output_tokens |-> OutputTokens,
                 imageCount |-> 0, fps |-> NoCount, output_filename |-> "",
                 exc |-> NoError]

\* lines 343-353
PreRenderReadMetadata ==
    /\ call.fn = "_pre_render"
    /\ call.at = "_read_snapshot_metadata"
    /\ LET read == ReadSnapshotMetadata(call.metadata, call.listing,
                                        call.output_tokens)
           found == [call EXCEPT !.imageCount = read.imageCount,
                                 !.output_tokens = read.output_tokens]
       IN  call' = IF InsufficientImages(read.imageCount)
                   THEN [found EXCEPT !.at = "raised",
                            !.exc = RenderError("insufficient-images", "None")]
                   ELSE [found EXCEPT !.at = "_calculate_fps"]
    /\ UNCHANGED beside_call

\* lines 355-359
PreRenderCalculateFps ==
    /\ call.fn = "_pre_render"
    /\ call.at = "_calculate_fps"
    /\ LET fps == CalculateFps(call.rendering, call.imageCount)
           computed == [call EXCEPT !.fps = fps,
                                    !.output_tokens.FPS = Str(FpsToken(fps))]
       IN  call' = IF fps < 1000
                   THEN [computed EXCEPT !.at = "raised",
                            !.exc = RenderError("insufficient-images", "None")]
                   ELSE [computed EXCEPT !.at = "_set_outputs"]
    /\ UNCHANGED beside_call

\* line 362
PreRenderSetOutputs ==
    /\ call.fn = "_pre_render"
    /\ call.at = "_set_outputs"
    /\ LET fmt == FormatTokens(call.rendering.output_template, call.output_tokens)
       IN  call' = IF fmt.exc \in {"KeyError", "IndexError"}
                   THEN [call EXCEPT !.at = "raised", !.exc = PyException(fmt.exc)]
                   ELSE [call EXCEPT !.at = "returned",
                            !.output_filename =
                               IF fmt.exc = "ValueError"
                               THEN "RenderingFilenameTemplateError"
                               ELSE fmt.name]
    /\ UNCHANGED beside_call

PreRenderNext ==
    PreRenderReadMetadata \/ PreRenderCalculateFps \/ PreRenderSetOutputs

PreRenderSpec == PreRenderInit /\ [][PreRenderNext]_vars

\* ---- RenderingCallbackArgs: the path accessors
\* longest directory, file name or extension tried (characters)
MaxPathLen == 1

\* a character of the ASCII range, and one outside it
Ascii == "a"

NonAscii == "U+00E9"

PathTexts ==
    UNION {[1..n -> {Ascii, NonAscii}] : n \in 0..MaxPathLen}

\* The two string types of the interpreter the module runs on (import
\* Queue, basestring): str holds bytes, unicode holds code points.
PathStrings ==
    {[type |-> t, text |-> x] : t \in {"str", "unicode"}, x \in PathTexts}

\* a str format string converts a unicode argument with the ascii codec
Encodable(s) ==
    \/ s.type = "str"
    \/ \A i \in DOMAIN s.text : s.text[i] # NonAscii

\* "{0}.{1}".format(a, b)
FormatDotted(a, b) ==
    IF Encodable(a) /\ Encodable(b)
    THEN [exc |-> "None",
          value |-> [type |-> "str", text |-> a.text \o <<".">> \o b.text]]
    ELSE [exc |-> "UnicodeEncodeError", value |-> [type |-> "str", text |-> << >>]]

\* "{0}{1}".format(a, b)
FormatJoined(a, b) ==
    IF Encodable(a) /\ Encodable(b)
    THEN [exc |-> "None", value |-> [type |-> "str", text |-> a.text \o b.text]]
    ELSE [exc |-> "UnicodeEncodeError", value |-> [type |-> "str", text |-> << >>]]

\* get_rendering_filename / get_synchronization_filename
get_rendering_filename(args) ==
    FormatDotted(args.RenderingFilename, args.RenderingExtension)

get_synchronization_filename(args) ==
    FormatDotted(args.SynchronizedFilename, args.RenderingExtension)

\* get_rendering_path / get_synchronization_path
get_rendering_path(args) ==
    LET filename == get_rendering_filename(args) IN
    IF filename.exc # "None" THEN filename
    ELSE FormatJoined(args.RenderingDirectory, filename.value)

get_synchronization_path(args) ==
    LET filename == get_synchronization_filename(args) IN
    IF filename.exc # "None" THEN filename
    ELSE FormatJoined(args.SynchronizedDirectory, filename.value)

\* no accessor was called
NotCalled == [exc |-> "not called", value |-> [type |-> "str", text |-> << >>]]

\* RenderingCallbackArgs.__init__ with strings for the five path fields
CallbackArgsInit ==
    /\ NoProcessor
    /\ \E rendering_directory \in PathStrings, rendering_filename \in PathStrings,
          rendering_extension \in PathStrings,
          synchronized_directory \in PathStrings,
          synchronized_filename \in PathStrings :
         call = [fn |-> "RenderingCallbackArgs",
                 args |-> [RenderingDirectory |-> rendering_directory,
                           RenderingFilename |-> rendering_filename,
                           RenderingExtension |-> rendering_extension,
                           SynchronizedDirectory |-> synchronized_directory,
                           SynchronizedFilename |-> synchronized_filename],
                 rendering_path |-> NotCalled,
                 synchronization_path |-> NotCalled]

GetRenderingPath ==
    /\ call.fn = "RenderingCallbackArgs"
    /\ call.rendering_path = NotCalled
    /\ call' = [call EXCEPT !.rendering_path = get_rendering_path(call.args)]
    /\ UNCHANGED beside_call

GetSynchronizationPath ==
    /\ call.fn = "RenderingCallbackArgs"
    /\ call.synchronization_path = NotCalled
    /\ call' = [call EXCEPT
                   !.synchronization_path = get_synchronization_path(call.args)]
    /\ UNCHANGED beside_call

CallbackArgsNext == GetRenderingPath \/ GetSynchronizationPath

CallbackArgsSpec == CallbackArgsInit /\ [][CallbackArgsNext]_vars

\* ---- _apply_pre_post_roll: the pre-roll loops, one file operation a step
\* (variant: the frames are renamed first-to-last)
MoveOrder_Ascending(imageCount) == [k \in 1..imageCount |-> k - 1]

\* range(self._imageCount - 1, -1, -1): the image_number of each iteration
MoveOrder(imageCount) == [k \in 1..imageCount |-> imageCount - k]

\* the directory after preprocessing, and the roll asked for
PreRollInit ==
    /\ NoProcessor
    /\ \E imageCount \in 2..MaxRollImages, fps \in RollFps,
          pre \in 0..MaxRollSeconds :
         call = [fn |-> "pre_roll", at |-> "test",
                 imageCount |-> imageCount,
                 pre_roll_frames |-> (pre * fps) \div 1000,
                 iteration |-> 0,
                 files |-> [i \in 0..(imageCount - 1) |-> i],
                 overwrote |-> FALSE]

\* if pre_roll_frames > 0:
PreRollTest ==
    /\ call.fn = "pre_roll"
    /\ call.at = "test"
    /\ call' = [call EXCEPT !.at = IF call.pre_roll_frames > 0 THEN "move" ELSE "done"]
    /\ UNCHANGED beside_call

\* one iteration of the renaming loop: shutil.move(current_image_path,
\* new_image_path), which replaces a file already at the new path
PreRollMove ==
    /\ call.fn = "pre_roll"
    /\ call.at = "move"
    /\ LET image_number == MoveOrder(call.imageCount)[call.iteration + 1]
           target == image_number + call.pre_roll_frames
       IN  call' = [call EXCEPT
                       !.files = MoveFile(@, image_number, target),
                       !.overwrote = @ \/ target \in DOMAIN call.files,
                       !.iteration = IF call.iteration + 1 = call.imageCount
                                     THEN 0 ELSE @ + 1,
                       !.at = IF call.iteration + 1 = call.imageCount
                              THEN "copy" ELSE "move"]
    /\ UNCHANGED beside_call

\* one iteration of the copy loop: shutil.copy(first_image_path, new_image_path)
PreRollCopy ==
    /\ call.fn = "pre_roll"
    /\ call.at = "copy"
    /\ call' = [call EXCEPT
                   !.files = CopyFile(@, call.pre_roll_frames, call.iteration),
                   !.iteration = @ + 1,
                   !.at = IF call.iteration + 1 = call.pre_roll_frames
                          THEN "done" ELSE "copy"]
    /\ UNCHANGED beside_call

PreRollNext == PreRollTest \/ PreRollMove \/ PreRollCopy

PreRollSpec == PreRollInit /\ [][PreRollNext]_vars

\* ------------------------------------------------------------------ claims
\* _render has been left by the last step and run() has not gone on yet
PipelineLeft == pc = "task_done"

Fired(name) == \E i \in DOMAIN callback_log : callback_log[i] = name

TerminalCount ==
    Cardinality({i \in DOMAIN callback_log : callback_log[i] \in TerminalCallbacks})

\* C1: every run of _render invokes exactly one of on_render_success /
\* on_render_error, exactly once, as the last callback of the run.
C1_ExactlyOneTerminalCallback ==
    PipelineLeft =>
        /\ TerminalCount = 1
        /\ callback_log[Len(callback_log)] \in TerminalCallbacks

\* C2: at most one pipeline (TimelapseRenderJob.process) executes at any
\* instant.
C2_OnePipelineAtATime == Cardinality(executing) <= 1

C2_Witness == Cardinality(executing) = 1 /\ Len(rendering_task_queue) >= 1

\* C3: jobs are processed in the order of their enqueue (job ids are given
\* in that order): once the prerender-start callback of job B has been
\* invoked, the prerender-start and the terminal callback of every job
\* enqueued before B have been invoked.
C3_FifoOrder ==
    \A b \in prerender_fired : \A a \in 1..(b - 1) :
        a \in prerender_fired /\ a \in terminal_fired

C3_Witness == 2 \in prerender_fired /\ 1 \in terminal_fired

\* C4: with K jobs enqueued and no enqueue since the job was dequeued, the
\* job dequeued after d earlier dequeues is stamped jobs_remaining = K - d - 1
\* and every payload built for it carries that value.
C4_JobsRemaining ==
    dequeue_ctx.enqueued = enqueued =>
        /\ job_info.job_number > 0 =>
              job_info.jobs_remaining = enqueued - dequeue_ctx.dequeued - 1
        /\ (last_payload.JobId # 0 /\ last_payload.JobId = job_info.job_id) =>
              last_payload.JobsRemaining = enqueued - dequeue_ctx.dequeued - 1

C4_Witness ==
    /\ dequeue_ctx.enqueued = enqueued
    /\ enqueued = 2
    /\ dequeue_ctx.dequeued = 0
    /\ last_payload.JobId = job_info.job_id
    /\ last_payload.callback \in TerminalCallbacks
    /\ last_payload.JobsRemaining = 1

\* C5 as claimed: the jobs_remaining stamped on a job is the queue depth
\* left by the get() that removed it.
C5_DepthLeftByGet ==
    job_info.job_number > 0 => job_info.jobs_remaining = dequeue_ctx.depth

\* C5 as amended: the jobs_remaining stamped on a job is the depth left by
\* its get() plus the number of enqueues completed between that get() and
\* the worker's qsize() call, and no later step changes it.
C5_DepthAtQsize ==
    [][ /\ job_info'.job_number > 0 =>
             job_info'.jobs_remaining =
                 dequeue_ctx'.depth
                 + (dequeue_ctx'.stamped_at - dequeue_ctx'.enqueued)
        /\ (job_info.job_number > 0 /\ job_info'.job_id = job_info.job_id) =>
             job_info'.jobs_remaining = job_info.jobs_remaining ]_vars

C5_Witness ==
    /\ job_info.job_number > 0
    /\ dequeue_ctx.depth = 0
    /\ job_info.jobs_remaining = 1
    /\ dequeue_ctx.stamped_at > dequeue_ctx.enqueued
    /\ executing # {}

\* C6: while a pipeline is executing, is_processing() returns true: the flag
\* is set, and a call that holds the lock returns "True".
C6_ProcessingWhileExecuting ==
    executing # {} =>
        /\ _is_processing
        /\ poller = "locked" => IsProcessingResult = "True"

C6_Witness == executing # {} /\ poller = "locked" /\ IsProcessingResult = "True"

\* C7: once every enqueued job's pipeline has ended (by returning or by
\* raising) and the queue is empty with nothing more to come,
\* is_processing() eventually returns false and stays false.
AllPipelinesEnded ==
    /\ pending = 0
    /\ rendering_task_queue = << >>
    /\ job_count = enqueued
    /\ executing = {}
    /\ pc \in {"task_done", "check_empty", "lock_false", "set_false",
               "render_end", "get", "timeout", "dead"}

C7_EventuallyNotProcessing == AllPipelinesEnded ~> [](~_is_processing)

\* C8: a frame count of 0 or 1 ends the pipeline with the error callback
\* carrying kind 'insufficient-images'; render-start is not fired, no
\* temporary directory is created and the encoder is not invoked.
C8_InsufficientImages ==
    job.imageCount \in {0, 1} =>
        /\ ~Fired("render_start")
        /\ job.temp_rendering_dir = "None"
        /\ ~temp_dir.exists
        /\ encoder_runs = 0
        /\ PipelineLeft =>
              /\ last_payload.callback = "render_error"
              /\ last_payload.error = RenderError("insufficient-images", "None")
              /\ TerminalCount = 1

C8_Witness ==
    /\ PipelineLeft
    /\ job.imageCount = 1
    /\ last_payload.callback = "render_error"

\* C9: after a pipeline run that failed with cleanup-on-fail enabled, the
\* temporary working directory does not exist.
C9_CleanupOnFail ==
    (ppc = "idle" /\ job.r_error # NoError /\ job.cleanAfterFail) =>
        ~temp_dir.exists

C9_Witness ==
    /\ PipelineLeft
    /\ job.r_error # NoError
    /\ job.cleanAfterFail
    /\ job.temp_rendering_dir # "None"
    /\ ~temp_dir.exists

\* the frame files the temporary directory holds after preprocessing and
\* pre/post roll
PaddedFrames ==
    0..(job.imageCount
        + (job.rendering.pre_roll_seconds * job.fps) \div 1000
        + (job.rendering.post_roll_seconds * job.fps) \div 1000 - 1)

\* C10: after a run that ended with the success callback, the temporary
\* working directory still exists with its preprocessed and padded frames if
\* cleanup-on-success is disabled, and no longer exists if it is enabled.
C10_CleanupOnSuccess ==
    (ppc = "idle" /\ last_payload.callback = "render_success") =>
        IF job.cleanAfterSuccess
        THEN ~temp_dir.exists
        ELSE temp_dir.exists /\ DOMAIN temp_dir.frames = PaddedFrames

C10_Witness ==
    /\ PipelineLeft
    /\ last_payload.callback = "render_success"
    /\ ~job.cleanAfterSuccess
    /\ job.rendering.pre_roll_seconds = 1
    /\ temp_dir.exists

\* the error kinds of the two script stages
ScriptKinds == {"before_render_script_error", "after_render_script_error"}

\* C11: a failure of the before-render or after-render script never aborts
\* the pipeline and never changes its outcome: the script stage only records
\* its RenderError on the job and goes on to the next stage, the error that
\* decides the terminal callback is never a script error, and the terminal
\* callback's payload carries both script errors of the job.
C11_ScriptErrorsNeverAbort ==
    [][ /\ ppc = "pre_render_script" =>
             /\ ppc' = "pre_render"
             /\ job' = [job EXCEPT !.before_render_error = job'.before_render_error]
             /\ job'.before_render_error.type \in {"", "before_render_script_error"}
             /\ UNCHANGED <<temp_dir, snapshot_dir, encoder_runs, callback_vars,
                            job_info, stay>>
        /\ ppc = "post_render_script" =>
             /\ ppc' = "cleanup_success"
             /\ job' = [job EXCEPT !.after_render_error = job'.after_render_error]
             /\ job'.after_render_error.type \in {"", "after_render_script_error"}
             /\ UNCHANGED <<temp_dir, snapshot_dir, encoder_runs, callback_vars,
                            job_info, stay>>
        /\ job'.exc.type \notin ScriptKinds
        /\ job'.r_error.type \notin ScriptKinds
        /\ ppc = "terminal" =>
             /\ last_payload'.callback =
                    (IF job.r_error = NoError THEN "render_success" ELSE "render_error")
             /\ last_payload'.error = job.r_error
             /\ last_payload'.BeforeRenderError = job.before_render_error
             /\ last_payload'.AfterRenderError = job.after_render_error ]_vars

C11_Witness ==
    /\ PipelineLeft
    /\ last_payload.callback = "render_success"
    /\ last_payload.BeforeRenderError.type = "before_render_script_error"
    /\ last_payload.AfterRenderError.type = "after_render_script_error"

\* C12: when synchronization is configured and the move of the output file
\* fails after a successful encode, the run ends with the error callback
\* carrying kind 'synchronizing-exception' and without the success
\* callback, whatever the two cleanup flags are.
C12_SyncFailureReported ==
    (PipelineLeft /\ job.r_error.type = "synchronizing-exception") =>
        /\ last_payload.callback = "render_error"
        /\ last_payload.error.type = "synchronizing-exception"
        /\ ~Fired("render_success")

\* C13: every exception a stage raises after the prerender-start callback
\* reaches the error callback as a RenderError: once _render has been left
\* with an error caught by its handler, the last callback is the error
\* callback, and the error it was given is a RenderError that keeps the
\* original kind or has kind 'render-error' with the original exception as
\* its cause.
C13_StageErrorsReachErrorCallback ==
    (PipelineLeft /\ job.r_error # NoError) =>
        /\ last_payload.callback = "render_error"
        /\ last_payload.error = job.r_error
        /\ last_payload.error.cls = "RenderError"
        /\ last_payload.error.type = "render-error" =>
              last_payload.error.cause \notin {"None", "RenderError"}

\* the error the pipeline holds: the exception on its way to the handler,
\* or the handler's r_error
PipelineError == IF job.exc # NoError THEN job.exc ELSE job.r_error

\* C14 as claimed: a non-zero exit code of the encoder fails the pipeline
\* with kind 'rendering-exception', and a failure to launch the encoder
\* fails it with kind 'return-code' carrying the captured error-stream text.
C14_EncodeKindsAsClaimed ==
    job.p.ran =>
        /\ (~job.p.raised /\ job.p.returncode # 0) =>
              PipelineError.type = "rendering-exception"
        /\ job.p.raised =>
              /\ PipelineError.type = "return-code"
              /\ PipelineError.message = job.p.stderr_text

\* C14 as amended: a failure to launch the encoder (sarge.run raises) fails
\* the pipeline with kind 'rendering-exception' wrapping the exception as
\* its cause; a non-zero exit code fails it with kind 'return-code', whose
\* message carries the captured error-stream text; the error callback is
\* given that error.
C14_EncodeKinds ==
    job.p.ran =>
        /\ job.p.raised =>
              /\ PipelineError.type = "rendering-exception"
              /\ PipelineError.cause # "None"
        /\ (~job.p.raised /\ job.p.returncode # 0) =>
              /\ PipelineError.type = "return-code"
              /\ PipelineError.message = job.p.stderr_text
              /\ PipelineError.message # ""
        /\ (PipelineLeft /\ (job.p.raised \/ job.p.returncode # 0)) =>
              /\ last_payload.callback = "render_error"
              /\ last_payload.error = job.r_error

C14_Witness ==
    /\ PipelineLeft
    /\ ~job.p.raised
    /\ job.p.returncode # 0
    /\ last_payload.callback = "render_error"
    /\ last_payload.error.type = "return-code"

\* the workers inside the with block of the encode stage
InsideEncoder ==
    {w \in DOMAIN threads : threads[w].at \in {"sarge_run", "returncode_test"}}

\* C15: encoder invocations are mutually exclusive across the pipelines of
\* several workers: at most one thread is inside the encode stage's with
\* block, it is the one holding render_job_lock, and the lock is free
\* whenever no thread is inside, whether the invocations before succeeded,
\* returned non-zero or failed to launch.
C15_EncoderMutualExclusion ==
    /\ Cardinality(InsideEncoder) <= 1
    /\ \A w \in InsideEncoder : render_job_lock = w
    /\ (threads # NoThreads /\ InsideEncoder = {}) => render_job_lock = 0

C15_Witness ==
    /\ threads # NoThreads
    /\ threads[1].at = "raised"
    /\ threads[1].p.raised
    /\ threads[2].at = "returncode_test"
    /\ threads[2].p.returncode # 0
    /\ render_job_lock = 2

\* the least file number not taken in a directory (0: the base name itself)
LeastFree(files) ==
    CHOOSE n \in 0..(MaxFileNumber + 1) :
        n \notin files /\ \A m \in 0..(n - 1) : m \in files

\* C16: in each of the two destinations _set_outputs chooses the base name
\* B if B.ext does not exist there, else B_N for the least N >= 1 such that
\* B_N.ext does not exist there; both searches start from the same base, so
\* the synchronized choice depends on the synchronization directory only.
C16_CollisionAvoidance ==
    (call.fn = "_set_outputs" /\ call.done) =>
        /\ call.output_filename = LeastFree(call.primary_files)
        /\ call.synchronized_filename = LeastFree(call.synchronized_files)
        /\ call.output_filename \notin call.primary_files
        /\ call.synchronized_filename \notin call.synchronized_files

C16_Witness ==
    /\ call.fn = "_set_outputs"
    /\ call.done
    /\ call.primary_files = {0, 1}
    /\ call.synchronized_files = {1}
    /\ call.output_filename = 2
    /\ call.synchronized_filename = 0

\* C17: when substituting the output tokens into the filename template
\* fails (unknown token, integer token or other formatting error), the
\* failure is an error of the job: the encoder is never run and the success
\* callback never fires for a job whose template cannot be formatted.
C17_TemplateFailureIsAnError ==
    (job.imageCount # NoCount
     /\ FormatTemplate(job.rendering.output_template).exc # "None") =>
        /\ encoder_runs = 0
        /\ ~Fired("render_success")
        /\ PipelineLeft => job.r_error # NoError

\* int(self._rendering.pre_roll_seconds * self._fps) and the same for post roll
PreRollFrames == (call.rendering.pre_roll_seconds * call.fps) \div 1000

PostRollFrames == (call.rendering.post_roll_seconds * call.fps) \div 1000

\* C18: for a working directory holding frames 0..C-1 (C >= 2), N pre-roll
\* and M post-roll frames, _apply_pre_post_roll leaves exactly the indices
\* 0..C+N+M-1, where index j holds original frame 0 for j < N, original
\* frame j-N for N <= j < N+C, and original frame C-1 for j >= N+C.
C18_PrePostRollResult ==
    (call.fn = "_apply_pre_post_roll" /\ call.done) =>
        LET C == call.imageCount
            N == PreRollFrames
            M == PostRollFrames
        IN  /\ DOMAIN call.files = 0..(C + N + M - 1)
            /\ \A j \in DOMAIN call.files :
                  call.files[j] = IF j < N THEN 0
                                  ELSE IF j < N + C THEN j - N
                                  ELSE C - 1

C18_Witness ==
    /\ call.fn = "_apply_pre_post_roll"
    /\ call.done
    /\ call.imageCount = 5
    /\ PreRollFrames = 3
    /\ PostRollFrames = 1
    /\ call.files = [j \in 0..8 |-> IF j < 3 THEN 0 ELSE IF j < 8 THEN j - 3 ELSE 4]

\* r (thousandths) is frames / seconds rounded to the nearest 0.001
NearestThousandth(r, frames, seconds) ==
    /\ 2 * (1000 * frames - r * seconds) <= seconds
    /\ 2 * (r * seconds - 1000 * frames) <= seconds

\* C19: in duration mode the frame rate is frame_count / target_duration
\* rounded to the nearest 0.001 and then clamped, so that it lies in
\* [min_fps, max_fps] whenever min_fps <= max_fps; the FPS token is the
\* ceiling of that frame rate; in fixed mode the configured frame rate is
\* used unchanged.
C19_FpsComputation ==
    (call.fn = "_calculate_fps" /\ call.done) =>
        LET r == call.rendering IN
        /\ r.fps_calculation_type = "duration" =>
              /\ r.min_fps <= call.fps /\ call.fps <= r.max_fps
              /\ \E q \in 0..(1000 * call.imageCount + 1) :
                    /\ NearestThousandth(q, call.imageCount, r.run_length_seconds)
                    /\ call.fps = IF q > r.max_fps THEN r.max_fps
                                  ELSE IF q < r.min_fps THEN r.min_fps ELSE q
        /\ r.fps_calculation_type = "static" => call.fps = r.fps
        /\ 1000 * call.FPS >= call.fps
        /\ 1000 * (call.FPS - 1) < call.fps

C19_Witness ==
    /\ call.fn = "_calculate_fps"
    /\ call.done
    /\ call.rendering.fps_calculation_type = "duration"
    /\ call.imageCount = 100
    /\ call.rendering.run_length_seconds = 10
    /\ call.rendering.min_fps = 1000
    /\ call.rendering.max_fps = 30000
    /\ call.fps = 10000
    /\ call.FPS = 10

\* the offsets add_overlay added to the base position
OverlayDrawn == call.fn = "add_overlay" /\ call.done /\ call.returned = "overlay"

OffsetX == call.xy[1] - call.overlay_location[1]

OffsetY == call.xy[2] - call.overlay_location[2]

\* half of size - textsize as add_overlay takes it: exact when the
\* difference is even, else rounded down for an odd size and up for an even one
CentredOffset(off, size, textsize) ==
    2 * off = size - textsize
              + (IF (size - textsize) % 2 = 0 THEN 0
                 ELSE IF size % 2 = 0 THEN 1 ELSE -1)

\* C20 as claimed: 'top' and 'left' add 0; 'middle' adds (H - th) / 2 and
\* 'center' adds (W - tw) / 2, rounded down when the difference is odd;
\* 'bottom' adds H - th and 'right' adds W - tw.
C20_OverlayGeometryAsClaimed ==
    OverlayDrawn =>
        LET W == call.size[1]
            H == call.size[2]
            tw == call.textsize[1]
            th == call.textsize[2]
        IN  /\ call.overlay_text_valign = "top" => OffsetY = 0
            /\ call.overlay_text_halign = "left" => OffsetX = 0
            /\ call.overlay_text_valign = "middle" => OffsetY = (H - th) \div 2
            /\ call.overlay_text_halign = "center" => OffsetX = (W - tw) \div 2
            /\ call.overlay_text_valign = "bottom" => OffsetY = H - th
            /\ call.overlay_text_halign = "right" => OffsetX = W - tw

\* C20 as amended: 'top' and 'left' add 0; 'bottom' adds H - th and 'right'
\* adds W - tw; 'middle' adds floor(H / 2) - floor(th / 2), which is
\* (H - th) / 2 when H - th is even and otherwise (H - th) / 2 rounded down
\* if H is odd and rounded up if H is even; 'center' does the same with W
\* and tw.
C20_OverlayGeometry ==
    OverlayDrawn =>
        LET W == call.size[1]
            H == call.size[2]
            tw == call.textsize[1]
            th == call.textsize[2]
        IN  /\ call.overlay_text_valign = "top" => OffsetY = 0
            /\ call.overlay_text_halign = "left" => OffsetX = 0
            /\ call.overlay_text_valign = "middle" => CentredOffset(OffsetY, H, th)
            /\ call.overlay_text_halign = "center" => CentredOffset(OffsetX, W, tw)
            /\ call.overlay_text_valign = "bottom" => OffsetY = H - th
            /\ call.overlay_text_halign = "right" => OffsetX = W - tw

C20_Witness ==
    /\ OverlayDrawn
    /\ call.overlay_text_valign = "middle"
    /\ call.overlay_text_halign = "center"
    /\ call.size = <<3, 4>>
    /\ call.textsize = <<2, 1>>
    /\ OffsetX = 0
    /\ OffsetY = 2

\* add_overlay has returned or raised
OverlayCalled == call.fn = "add_overlay" /\ call.done

BadVAlign == call.overlay_text_valign \notin {"top", "middle", "bottom"}

BadHAlign == call.overlay_text_halign \notin {"left", "center", "right"}

\* the call gets as far as the alignment handling: the template is not
\* empty and formats, and the font is set and loads
ReachesAlignment ==
    /\ call.text_template \notin {"", "{unknown}"}
    /\ call.font_path \notin {"", "missing.ttf"}

Descriptors ==
    {rendering_task_queue[i] : i \in DOMAIN rendering_task_queue}
    \cup (IF job_info.job_id # 0 THEN {job_info} ELSE {})

\* C22: a descriptor's rendering configuration is the caller's at the time
\* the descriptor was built, and stays so: the descriptor just enqueued
\* holds the caller's values, no step (an edit of the caller's settings
\* included) changes the configuration of a descriptor that exists or of a
\* running pipeline, and the pipeline's configuration and flags are those
\* of its descriptor.
C22_ConfigurationSnapshot ==
    [][ /\ enqueued' = enqueued + 1 =>
             rendering_task_queue'[Len(rendering_task_queue')].rendering = settings
        /\ \A d \in Descriptors :
             \A e \in {x \in Descriptors' : x.job_id = d.job_id} :
                e.rendering = d.rendering
        /\ executing' # {} =>
             /\ job'.rendering = job_info'.rendering
             /\ job'.cleanAfterSuccess = job_info'.rendering.cleanup_after_render_complete
             /\ job'.cleanAfterFail = job_info'.rendering.cleanup_after_render_fail
             /\ job'.synchronize = job_info'.rendering.sync_with_timelapse
             /\ job'.ffmpeg = job_info'.ffmpeg_path ]_vars

C22_Witness ==
    /\ ppc = "encode"
    /\ job.rendering = DefaultRendering
    /\ job_info.rendering = DefaultRendering
    /\ settings = EditedRendering
    /\ dequeue_ctx.enqueued = 1

\* _pre_render has come to the call of _set_outputs
ReachedSetOutputs ==
    /\ call.fn = "_pre_render"
    /\ call.at \in {"_set_outputs", "returned"}

\* C23: when _pre_render comes to _set_outputs, SNAPSHOTCOUNT holds the
\* frame count found (from the metadata or from the directory listing) and
\* FPS the ceiling of the computed frame rate, both written in this run and
\* neither 0; a file name made of the two tokens consists of these values.
C23_TokensOverwritten ==
    ReachedSetOutputs =>
        /\ call.output_tokens.SNAPSHOTCOUNT = Str(call.imageCount)
        /\ call.imageCount =
              (IF call.metadata # NoCount THEN call.metadata ELSE call.listing)
        /\ call.output_tokens.FPS = Str(FpsToken(call.fps))
        /\ FpsToken(call.fps) * 1000 >= call.fps
        /\ (FpsToken(call.fps) - 1) * 1000 < call.fps
        /\ call.output_tokens.SNAPSHOTCOUNT.value # 0
        /\ call.output_tokens.FPS.value # 0
        /\ (call.at = "returned"
            /\ call.rendering.output_template = CountTemplate) =>
               /\ call.output_filename = <<call.imageCount, FpsToken(call.fps)>>
               /\ call.output_filename[1] # 0
               /\ call.output_filename[2] # 0

C23_Witness ==
    /\ call.fn = "_pre_render"
    /\ call.at = "returned"
    /\ call.metadata = NoCount
    /\ call.listing = 3
    /\ call.rendering.fps_calculation_type = "duration"
    /\ call.rendering.output_template = CountTemplate
    /\ call.output_filename = <<3, 2>>

\* the text directory + filename + "." + extension
DottedPath(directory, filename, extension) ==
    directory.text \o filename.text \o <<".">> \o extension.text

\* C24: whatever strings the payload was built with, get_rendering_path
\* returns directory + filename + "." + extension and
\* get_synchronization_path returns synchronized directory + synchronized
\* filename + "." + the rendering extension.
C24_PathRoundTrip ==
    call.fn = "RenderingCallbackArgs" =>
        /\ call.rendering_path # NotCalled =>
              /\ call.rendering_path.exc = "None"
              /\ call.rendering_path.value.text =
                    DottedPath(call.args.RenderingDirectory,
                               call.args.RenderingFilename,
                               call.args.RenderingExtension)
        /\ call.synchronization_path # NotCalled =>
              /\ call.synchronization_path.exc = "None"
              /\ call.synchronization_path.value.text =
                    DottedPath(call.args.SynchronizedDirectory,
                               call.args.SynchronizedFilename,
                               call.args.RenderingExtension)

\* the callback sequences C25 allows for one run of _render
JobCallbackSequences ==
    { <<"prerender_start", "render_error">>,
      <<"prerender_start", "render_start", "render_success">>,
      <<"prerender_start", "render_start", "render_error">> }

IsPrefix(s, t) == Len(s) <= Len(t) /\ \A i \in DOMAIN s : s[i] = t[i]

\* the callbacks so far come in the order C25 gives, and render_start
\* was fired before the temporary directory was made, a precondition was
\* checked, a frame preprocessed or the encoder run
CallbackOrderSoFar ==
    /\ \E t \in JobCallbackSequences : IsPrefix(callback_log, t)
    /\ ppc \in {"mkdtemp", "preconditions", "preprocess", "pre_post_roll",
                "encode_acquire", "encode", "post_render_script",
                "cleanup_success", "synchronize"} =>
           callback_log = <<"prerender_start", "render_start">>
    /\ (temp_dir.exists \/ encoder_runs > 0) => Fired("render_start")

\* C25: the callbacks of one run of _render come in the order
\* prerender_start, then at most once render_start (before any
\* precondition check, preprocessing or encoder run), then the terminal
\* callback; when the run has ended the sequence is [prerender_start,
\* render_error] or [prerender_start, render_start, render_success or
\* render_error].
C25_CallbackOrder ==
    /\ CallbackOrderSoFar
    /\ PipelineLeft => callback_log \in JobCallbackSequences

\* on_render_end is about to be called, or was called, only with the flag
\* cleared, the queue empty, no pipeline executing and the job's terminal
\* callback fired; it is called at most once for the one job enqueued
BatchEndSafety ==
    /\ render_end_count <= 1
    /\ pc = "render_end" =>
          /\ ~_is_processing
          /\ rendering_task_queue = << >>
    /\ (pc = "render_end" \/ render_end_count = 1) =>
          /\ executing = {}
          /\ job_count = enqueued
          /\ job_info.job_id \in terminal_fired

\* C26: with the jobs enqueued and no later enqueue, on_render_end is
\* called exactly once: never while a pipeline executes, only after the
\* queue was seen empty and the flag was cleared, after the terminal
\* callback of the last job, and it is called once all pipelines have ended.
C26_BatchEndOnce ==
    /\ []BatchEndSafety
    /\ AllPipelinesEnded ~> (render_end_count = 1)

\* calls of task_done so far: every put() adds one to unfinished_tasks and
\* every task_done() takes one away
TaskDoneCalls == enqueued - unfinished_tasks

\* the worker holds a dequeued job whose item is not marked done yet
HoldsUndoneJob ==
    pc \in {"lock_true", "set_true", "stamp", "construct", "process", "task_done"}

\* dequeues whose pipeline has ended and whose finally clause has run
EndedJobs == job_count - (IF HoldsUndoneJob THEN 1 ELSE 0)

\* C27: the number of task_done calls equals the number of dequeued jobs
\* whose pipeline has ended, however each pipeline ended (returned after
\* the success or the error callback, or raised): each dequeued job is
\* marked done exactly once.
C27_TaskDoneOncePerJob ==
    /\ TaskDoneCalls = EndedJobs
    /\ unfinished_tasks =
          Len(rendering_task_queue) + (IF HoldsUndoneJob THEN 1 ELSE 0)

C27_Witness ==
    /\ pc = "dead"
    /\ raised # NoError
    /\ job_count = 2
    /\ TaskDoneCalls = 2
    /\ 1 \in terminal_fired

\* C28: an exception that leaves a pipeline run is re-raised out of the
\* worker loop after the item was marked done: the worker stops, and from
\* then on it dequeues no job, starts no pipeline and fires no callback
\* (batch-end included); jobs in the queue stay there.
C28_EscapeStopsWorker ==
    [][ /\ (pc = "task_done" /\ raised # NoError /\ pc' # pc) => pc' = "dead"
        /\ pc = "dead" =>
              /\ pc' = "dead"
              /\ job_count' = job_count
              /\ executing' = {}
              /\ ppc' = ppc
              /\ callback_log' = callback_log
              /\ prerender_fired' = prerender_fired
              /\ terminal_fired' = terminal_fired
              /\ render_end_count' = render_end_count
              /\ IsPrefix(rendering_task_queue, rendering_task_queue') ]_vars

C28_Witness ==
    /\ pc = "dead"
    /\ raised # NoError
    /\ Len(rendering_task_queue) = 1
    /\ pending = 0
    /\ render_end_count = 0
    /\ 2 \notin prerender_fired

PreconditionKinds ==
    {"ffmpeg_path", "no-bitrate", "create-render-path", "watermark-path",
     "watermark-non-existent"}

\* the kind C29 gives for the profile of the run and what the file system
\* answered; "" when every precondition is met
ClaimedPreconditionKind ==
    IF job.ffmpeg = "None" THEN "ffmpeg_path"
    ELSE IF job.rendering.bitrate = "None" THEN "no-bitrate"
    ELSE IF ~job.fs.makedirs_ok THEN "create-render-path"
    ELSE IF ~job.rendering.enable_watermark THEN ""
    ELSE IF job.rendering.selected_watermark = "" THEN "watermark-path"
    ELSE IF ~job.fs.watermark_exists THEN "watermark-non-existent"
    ELSE ""

\* the precondition checks of this run are over
PreconditionsChecked ==
    /\ job.temp_rendering_dir # "None"
    /\ ppc # "preconditions"

\* C29: once the precondition checks of a run are over, they have failed
\* exactly when the claimed priority order gives a kind (encoder path, then
\* bitrate, then the output directory with its cause, then, for an enabled
\* watermark only, its path and its existence), the error is a RenderError
\* of that kind, no frame was preprocessed and the encoder was not run, and
\* the run ends with the error callback carrying that error.
C29_PreconditionPriority ==
    PreconditionsChecked =>
        /\ ClaimedPreconditionKind # "" =>
              /\ PipelineError = RenderError(ClaimedPreconditionKind,
                                             IF ClaimedPreconditionKind = "create-render-path"
                                             THEN "OSError" ELSE "None")
              /\ encoder_runs = 0
              /\ temp_dir.frames = << >>
              /\ snapshot_dir = 0..(job.imageCount - 1)
              /\ ~Fired("render_success")
              /\ PipelineLeft =>
                    /\ last_payload.callback = "render_error"
                    /\ last_payload.error = job.r_error
        /\ ClaimedPreconditionKind = "" => PipelineError.type \notin PreconditionKinds
        /\ ~job.rendering.enable_watermark =>
              PipelineError.type \notin {"watermark-path", "watermark-non-existent"}

C29_Witness ==
    /\ PipelineLeft
    /\ ~job.fs.makedirs_ok
    /\ job.rendering.enable_watermark
    /\ job.rendering.selected_watermark = ""
    /\ last_payload.callback = "render_error"
    /\ last_payload.error = RenderError("create-render-path", "OSError")

\* C30: a run that failed with cleanup-on-fail set and a temporary
\* directory made ends with the error callback carrying the RenderError
\* the handler built, whether or not the handler's deletion of the
\* directory worked; no OSError of that deletion leaves _render.
C30_FailureCleanupBestEffort ==
    (PipelineLeft /\ job.r_error # NoError /\ ShouldCleanOnFail) =>
        /\ Fired("render_error")
        /\ last_payload.callback = "render_error"
        /\ last_payload.error = job.r_error
        /\ raised # PyException("OSError")

\* the worker's next step reads or writes self._is_processing (lines 223,
\* 252 and 257-258)
WorkerAtFlag == pc \in {"set_true", "set_false", "timeout"}

\* C31: whenever the worker is about to read or write the flag it holds
\* the lock, and so does the caller of is_processing() when it reads it.
C31_FlagAccessUnderLock ==
    /\ WorkerAtFlag => lock = "worker"
    /\ poller = "locked" => lock = "caller"

\* exception classes that come from outside the module: an observer
\* callback, a file system call, the launch of a process
ExternalExceptions == {"Exception", "IOError", "OSError"}

\* an external call of the current run has raised instead of returning:
\* the pipeline holds its exception (bare or as the cause of a
\* RenderError), or it left the pipeline, or on_render_end raised
ExternalCallRaised ==
    \/ PipelineError.cls \in ExternalExceptions
    \/ PipelineError.cls = "RenderError" /\ PipelineError.cause \in ExternalExceptions
    \/ raised # NoError

\* the terminal callback of the last job has fired and nothing more will
\* be enqueued
LastJobEnded ==
    /\ pending = 0
    /\ enqueued >= 1
    /\ terminal_fired = 1..enqueued
    /\ ppc = "idle"
    /\ pc = "task_done"

\* C32: with a fairly scheduled worker, in a behaviour where no external
\* call ever raises, every job enqueued gets its prerender-start (it was
\* dequeued) and its terminal callback, and after the terminal callback of
\* the last job on_render_end is called.
C32_EveryJobEnds ==
    [](~ExternalCallRaised) =>
        /\ \A j \in 1..MaxJobs :
              (enqueued >= j) ~> (j \in prerender_fired /\ j \in terminal_fired)
        /\ LastJobEnded ~> (pc = "render_end")

C32_Witness ==
    /\ pc = "render_end"
    /\ enqueued = 2
    /\ terminal_fired = {1, 2}
    /\ render_end_count = 1
    /\ ~ExternalCallRaised

\* the frame files the snapshot directory held when the run counted them
SourceFrames == 0..(job.imageCount - 1)

\* C33: after a run that ended with the error callback, every source frame
\* that was in the snapshot directory before the run is still there.
C33_SourceFramesKeptOnFailure ==
    (PipelineLeft /\ last_payload.callback = "render_error") =>
        SourceFrames \subseteq snapshot_dir

\* the frames (contents) the directory holds
FramesPresent == {call.files[j] : j \in DOMAIN call.files}

\* C34: through the renaming loop no move lands on an index that holds a
\* frame, the directory holds each original frame exactly once, and the
\* frames not yet moved are where they were while the moved ones are N
\* higher; when the copies into 0..N-1 start every frame has been moved.
C34_RenameWithoutOverwrite ==
    call.fn = "pre_roll" =>
        /\ ~call.overwrote
        /\ FramesPresent = 0..(call.imageCount - 1)
        /\ call.at = "move" =>
              /\ Cardinality(DOMAIN call.files) = call.imageCount
              /\ \A i \in 0..(call.imageCount - 1) :
                    IF i < call.imageCount - call.iteration
                    THEN i \in DOMAIN call.files /\ call.files[i] = i
                    ELSE /\ i + call.pre_roll_frames \in DOMAIN call.files
                         /\ call.files[i + call.pre_roll_frames] = i
        /\ call.at \in {"copy", "done"} /\ call.pre_roll_frames > 0 =>
              /\ DOMAIN call.files =
                    (0..((IF call.at = "done" THEN call.pre_roll_frames
                          ELSE call.iteration) - 1))
                    \cup (call.pre_roll_frames ..
                             (call.pre_roll_frames + call.imageCount - 1))
              /\ \A i \in 0..(call.imageCount - 1) :
                    call.files[i + call.pre_roll_frames] = i
              /\ \A j \in DOMAIN call.files : j < call.pre_roll_frames => call.files[j] = 0

C34_Witness ==
    /\ call.fn = "pre_roll"
    /\ call.at = "move"
    /\ call.imageCount = 3
    /\ call.pre_roll_frames = 2
    /\ call.iteration = 2
    /\ DOMAIN call.files = {0, 3, 4}

\* the error in hand is an observer callback's own exception
ObserverRaised ==
    PipelineError \in {PyException("Exception"),
                       RenderError("render-error", "Exception")}

\* a stage after the render-start callback has failed
FailedAfterRenderStart ==
    /\ Fired("render_start")
    /\ PipelineError # NoError
    /\ ~ObserverRaised

\* the run has ended with the error callback
EndedWithErrorCallback ==
    /\ PipelineLeft
    /\ last_payload.callback = "render_error"

\* what holds of the temporary directory whatever the flags are: it is made
\* between the render-start callback and the precondition checks, a stage
\* failure after render-start finds it made, and a run that failed before
\* it was made has no directory and deletes none
DirectoryMadeBeforeChecks ==
    /\ ppc = "preconditions" =>
          /\ temp_dir.exists
          /\ callback_log = <<"prerender_start", "render_start">>
    /\ FailedAfterRenderStart => job.temp_rendering_dir # "None"
    /\ job.temp_rendering_dir = "None" => ~temp_dir.exists
    /\ (PipelineError # NoError /\ ~Fired("render_start")) =>
          job.temp_rendering_dir = "None"

\* C35 as claimed: with cleanup-on-fail disabled, the directory of a run
\* that failed after render-start still exists after the error callback.
C35_DirectoryKeptAsClaimed ==
    /\ DirectoryMadeBeforeChecks
    /\ (EndedWithErrorCallback /\ FailedAfterRenderStart /\ ~job.cleanAfterFail) =>
          temp_dir.exists

\* the cleanup-on-success step has deleted the directory before
\* synchronization failed
DeletedBeforeSyncFailure ==
    /\ job.cleanAfterSuccess
    /\ job.r_error.type = "synchronizing-exception"

\* C35: the directory is made right after render-start and before the
\* precondition checks; with cleanup-on-fail disabled, the directory of a
\* run that failed after render-start exists after the error callback
\* unless cleanup-on-success deleted it before a synchronization failure.
C35_DirectoryKept ==
    /\ DirectoryMadeBeforeChecks
    /\ (EndedWithErrorCallback /\ FailedAfterRenderStart /\ ~job.cleanAfterFail) =>
          (temp_dir.exists <=> ~DeletedBeforeSyncFailure)

C35_Witness ==
    /\ EndedWithErrorCallback
    /\ ~job.cleanAfterFail
    /\ job.r_error.type = "no-bitrate"
    /\ temp_dir.exists

====
